---- MODULE Spec2Model ----
(***************************************************************************)
(* Discrete-event kernel of the dynamic pickup-and-delivery simulator:     *)
(* event queue, event handlers, plan validator and plan installation.      *)
(*                                                                         *)
(* Conventions.  Timestamps (NaiveDateTime) are seconds since              *)
(* initial_date 00:00:00; durations are seconds.  VehicleId and OrderId    *)
(* are opaque strings in the program; here they are naturals carrying the  *)
(* same ordering, because the program iterates BTreeMaps in key order.     *)
(* An OrderItemId is the record [order_id, item_type, index].  Distances   *)
(* (f32 in the program) are whole numbers.  A panic (failed assert!,       *)
(* expect, overflow) ends the run: the variable panic records it and no    *)
(* further event is dispatched.                                            *)
(***************************************************************************)
EXTENDS Integers, Sequences, FiniteSets, TLC

VARIABLES
    routes,                        \* Simulator.routes      : <<from, to>> -> [distance, time]
    factories,                     \* Simulator.factories   : FactoryId -> [port_num]
    vehicles,                      \* Simulator.vehicles    : VehicleId -> [capacity] (pallets)
    orders,                        \* Simulator.orders      : OrderId -> Order
    order_items,                   \* Simulator.order_items : OrderItemId -> OrderItem
    vehicle_states,                \* VehicleId -> VehicleState
    factory_states,                \* FactoryId -> FactoryState
    order_item_states,             \* OrderItemId -> OrderItemState
    events,                        \* EventQueue.events: the binary heap's array
    total_distance,
    total_distance_last_timeslot,
    now,                           \* timestamp of the event dispatched last (kernel clock)
    panic,                         \* "none", or the failure that ended the run
    planned_routes,                \* the plan handed to check_planned_routes last
    verdict,                       \* what check_planned_routes returned for it; in the
                                   \* cadence run, the scheduler's cost at the last tick
    pushed,                        \* event-queue harness: number of push calls so far
    popped,                        \* event-queue harness: the events pop returned, in order
    forked                         \* <<>>, or <<the Simulator fork returned, its static_deadline>>

static == <<routes, factories, vehicles, orders, order_items>>
kernel == <<vehicle_states, factory_states, order_item_states, events,
            total_distance, total_distance_last_timeslot, now, panic>>
vars == <<static, kernel, planned_routes, verdict, pushed, popped, forked>>

----------------------------------------------------------------------------
(* Bounds of the model *)

\* simulate_until(Until): events later than this are never dispatched
Until == 11999
\* most routes a scheduler puts in one vehicle's list
MaxRoutes == 2
\* most items in one load_items or unload_items list of a scheduler's route
MaxItems == 2
\* largest number of intervals the scheduler's wall-clock cost spans
MaxIntervals == 1
\* the horizon of the whole run: simulate_until(Horizon)
Horizon == 99999
\* largest number of intervals the scheduler's wall-clock cost spans in the whole run
MaxDilation == 2
\* event-queue harness: number of push calls, and the timestamps pushed
MaxPush == 4
MaxStamp == 1
\* schedule::deduplicate on its own: routes in one vehicle's list
MaxDedup == 3
\* the single-item scenario: distances and dock counts tried
MaxDistance == 3
MaxPorts == 2
\* the tick cadence: the largest wall-clock cost of the scheduler, in seconds
MaxCost == 11999
\* the observers: the number of callbacks registered with the Simulator
MaxCallbacks == 2

----------------------------------------------------------------------------
(* Program constants *)

time_interval == 6000
dock_approaching_time == 1800
load_time_per_box == 60
NaiveDateTimeMAX == 999999999
DurationMAX == 888888888
f32MAX == 777777777
SecondsPerDay == 86400

----------------------------------------------------------------------------
(* Sequences and maps *)

Range(s) == {s[i] : i \in DOMAIN s}

Reverse(s) == [i \in 1..Len(s) |-> s[Len(s) + 1 - i]]

\* BTreeMap iteration: keys in ascending order
RECURSIVE SortedKeys(_)
SortedKeys(S) ==
    IF S = {} THEN <<>>
    ELSE LET m == CHOOSE x \in S : \A y \in S : x <= y
         IN  <<m>> \o SortedKeys(S \ {m})

\* Map::get(key).is_some()
contains_key(map, key) == key \in DOMAIN map

----------------------------------------------------------------------------
(* model::order_item, model::order, model::vehicle_info, model::route_info *)

ItemTypes == <<"Standard", "Small", "Box">>

demand(item_type) ==
    CASE item_type = "Standard" -> 4
      [] item_type = "Small" -> 2
      [] item_type = "Box" -> 1

OrderItemId(order_id, item_type, index) ==
    [order_id |-> order_id, item_type |-> item_type, index |-> index]

create_item(order, typ, index) ==
    [id |-> OrderItemId(order.order_id, typ, index),
     demand |-> demand(typ),
     creation_time |-> order.creation_time,
     committed_completion_time |-> order.committed_completion_time,
     load_time |-> order.load_time,
     unload_time |-> order.unload_time,
     pickup_id |-> order.pickup_id,
     delivery_id |-> order.delivery_id]

into_items(order) ==
    [i \in 1..order.q_standard |-> create_item(order, "Standard", i - 1)]
    \o [i \in 1..order.q_small |-> create_item(order, "Small", i - 1)]
    \o [i \in 1..order.q_box |-> create_item(order, "Box", i - 1)]

item_ids(order) == [k \in DOMAIN into_items(order) |-> into_items(order)[k].id]

calc_demand(order) ==
    order.q_standard * demand("Standard") + order.q_small * demand("Small")
    + order.q_box * demand("Box")

committed_completion_time(o, date) ==
    IF o.creation_time > o.committed_completion_time
    THEN date + o.committed_completion_time + SecondsPerDay
    ELSE date + o.committed_completion_time

capacity(info) == info.capacity * 4

query_time_mut(from, to) ==
    IF from = to THEN 0
    ELSE IF <<to, from>> \in DOMAIN routes THEN routes[<<to, from>>].time
    ELSE DurationMAX
query_time(from, to) ==
    IF from = to THEN 0
    ELSE IF <<from, to>> \in DOMAIN routes THEN routes[<<from, to>>].time
    ELSE DurationMAX

query_distance(from, to) ==
    IF from = to THEN 0
    ELSE IF <<from, to>> \in DOMAIN routes THEN routes[<<from, to>>].distance
    ELSE f32MAX

----------------------------------------------------------------------------
(* simulation::event_queue: EventWrapper ordering and the BinaryHeap under   *)
(* EventQueue.  The heap array is 0-based in the program; position p of the *)
(* program is element p + 1 of the sequence.  A "hole" is the position the  *)
(* moving element will be written to.                                       *)

\* EventWrapper::cmp compares Reverse(time): a <= b iff a.time >= b.time
wrapper_le_mut(a, b) == a.time <= b.time
wrapper_le(a, b) == a.time >= b.time

RECURSIVE sift_up(_, _, _, _)
sift_up(data, elt, start, pos) ==
    IF pos > start
    THEN LET parent == (pos - 1) \div 2
         IN  IF wrapper_le(elt, data[parent + 1])
             THEN [data EXCEPT ![pos + 1] = elt]
             ELSE sift_up([data EXCEPT ![pos + 1] = data[parent + 1]], elt, start, parent)
    ELSE [data EXCEPT ![pos + 1] = elt]

RECURSIVE sift_down_to_bottom(_, _, _, _)
sift_down_to_bottom(data, elt, start, pos) ==
    LET end == Len(data)
        child == 2 * pos + 1
    IN  IF child <= (IF end >= 2 THEN end - 2 ELSE 0)
        THEN LET c == IF wrapper_le(data[child + 1], data[child + 2])
                      THEN child + 1 ELSE child
             IN  sift_down_to_bottom([data EXCEPT ![pos + 1] = data[c + 1]], elt, start, c)
        ELSE IF child = end - 1
             THEN sift_up([data EXCEPT ![pos + 1] = data[child + 1]], elt, start, child)
             ELSE sift_up(data, elt, start, pos)

\* EventQueue::push
push(data, event) == sift_up(Append(data, event), event, 0, Len(data))

\* EventQueue::peek (of a non-empty queue)
peek(data) == data[1]

\* the queue EventQueue::pop leaves behind (of a non-empty queue); pop returns peek
pop_mut(data) ==
    LET item == data[1]
        rest == SubSeq(data, 1, Len(data) - 1)
    IN  IF rest = <<>> THEN rest
        ELSE sift_down_to_bottom(rest, item, 0, 0)
pop(data) ==
    LET item == data[Len(data)]
        rest == SubSeq(data, 1, Len(data) - 1)
    IN  IF rest = <<>> THEN rest
        ELSE sift_down_to_bottom(rest, item, 0, 0)

----------------------------------------------------------------------------
(* simulation::sim_event, simulation::simulator: values *)

RECURSIVE total_demand(_)
total_demand(items) ==
    IF items = <<>> THEN 0
    ELSE order_items[Head(items)].demand + total_demand(Tail(items))

\* every id of the list is a key of the map (so gets / gets_mut do not panic)
all_known(items, map) == \A k \in DOMAIN items : contains_key(map, items[k])

VehicleWork(pickup_items, delivery_items) ==
    [load_items |-> pickup_items,
     unload_items |-> delivery_items,
     load_time |-> load_time_per_box * total_demand(pickup_items),
     unload_time |-> load_time_per_box * total_demand(delivery_items)]

delta_demand_mut(work) == total_demand(work.load_items)
delta_demand(work) == total_demand(work.load_items) - total_demand(work.unload_items)

merge_mut(a, b) ==
    [load_items |-> a.load_items \o b.load_items,
     unload_items |-> b.unload_items \o a.unload_items,
     load_time |-> a.load_time + b.load_time,
     unload_time |-> a.unload_time + b.unload_time]
merge(a, b) ==
    [load_items |-> a.load_items \o b.load_items,
     unload_items |-> a.unload_items \o b.unload_items,
     load_time |-> a.load_time + b.load_time,
     unload_time |-> a.unload_time + b.unload_time]

VehicleRoute(destination, work) == [destination |-> destination, work |-> work]

\* Result<(), VehicleRoute>: ok tells Ok(()) from Err(route); self is the receiver
\* after the call and err the route handed back
try_merge_mut(self, route) == [ok |-> FALSE, self |-> self, err |-> route]
try_merge(self, route) ==
    IF self.destination = route.destination
    THEN [ok |-> TRUE, self |-> [self EXCEPT !.work = merge(self.work, route.work)]]
    ELSE [ok |-> FALSE, self |-> self, err |-> route]

\* schedule::deduplicate on one vehicle's list: plan is the list rebuilt so far
RECURSIVE deduplicate_routes(_, _)
deduplicate_routes(plan, old_plan) ==
    IF old_plan = <<>> THEN plan
    ELSE LET route == Head(old_plan)
         IN  IF plan # <<>>
             THEN LET merged == try_merge(plan[Len(plan)], route)
                  IN  IF merged.ok
                      THEN deduplicate_routes([plan EXCEPT ![Len(plan)] = merged.self],
                                              Tail(old_plan))
                      ELSE deduplicate_routes(Append(plan, merged.err), Tail(old_plan))
             ELSE deduplicate_routes(Append(plan, route), Tail(old_plan))

deduplicate(plans) == [v \in DOMAIN plans |-> deduplicate_routes(<<>>, plans[v])]

Idle(f) == <<"Idle", f>>
DoingWork(f) == <<"DoingWork", f>>
Transporting(f, g) == <<"Transporting", f, g>>

Unavailable == [tag |-> "Unavailable"]
Unallocated == [tag |-> "Unallocated"]
Allocated == [tag |-> "Allocated"]
PickedUp == [tag |-> "PickedUp"]
delivered(from, to) == [tag |-> "Delivered", deadline |-> from, deliver_time |-> to]
delivered_irrelevant == delivered(NaiveDateTimeMAX, NaiveDateTimeMAX)

VehicleState(factory_id) ==
    [position |-> Idle(factory_id),
     item_stack |-> <<>>,
     allocated_item_stack |-> <<>>,
     current_route |-> <<>>]

FactoryState(num_avail_docks) == [num_avail_docks |-> num_avail_docks, queue |-> <<>>]

OrderArrival(order_id, order_item_ids, time) ==
    [kind |-> "OrderArrival", time |-> time, order_id |-> order_id,
     order_item_ids |-> order_item_ids]
VehicleArrival(vehicle_id, factory_id, work, time) ==
    [kind |-> "VehicleArrival", time |-> time, vehicle_id |-> vehicle_id,
     factory_id |-> factory_id, work |-> work]
VehicleApproachedDock(vehicle_id, factory_id, work, time) ==
    [kind |-> "VehicleApproachedDock", time |-> time, vehicle_id |-> vehicle_id,
     factory_id |-> factory_id, work |-> work]
FinishLoading(vehicle_id, factory_id, delivered_items, time) ==
    [kind |-> "FinishLoading", time |-> time, vehicle_id |-> vehicle_id,
     factory_id |-> factory_id, delivered_items |-> delivered_items]
UpdateTimestep(time) == [kind |-> "UpdateTimestep", time |-> time]

----------------------------------------------------------------------------
(* simulation::simulator: the handlers.  A handler is a function of the     *)
(* mutable part of the Simulator, the record                                *)
(*   [vehicle_states, factory_states, order_item_states, events,            *)
(*    total_distance, total_distance_last_timeslot, panic]                  *)
(* so that a handler can call another one, as in the program.  Once panic   *)
(* is set the rest of the handler does not run.                             *)

Self ==
    [vehicle_states |-> vehicle_states,
     factory_states |-> factory_states,
     order_item_states |-> order_item_states,
     events |-> events,
     total_distance |-> total_distance,
     total_distance_last_timeslot |-> total_distance_last_timeslot,
     panic |-> panic]

Panic(self, what) == [self EXCEPT !.panic = what]

\* the top n items of the stack are the items of unload_items, the last one on top
lifo_matches(stack, unload_items) ==
    /\ Len(unload_items) <= Len(stack)
    /\ \A k \in 1..Len(unload_items) :
          stack[Len(stack) - Len(unload_items) + k] = unload_items[k]

\* the stack after popping unload_items and extending with load_items
advance_stack_mut(stack, work) == stack \o work.load_items
advance_stack(stack, work) ==
    SubSeq(stack, 1, Len(stack) - Len(work.unload_items)) \o work.load_items

set_states(states, items, value) ==
    [i \in DOMAIN states |-> IF i \in Range(items) THEN value ELSE states[i]]

begin_vehicle_loading_mut(self, vehicle_id, factory_id, work, time) ==
    LET state == self.vehicle_states[vehicle_id]
        item_stack == advance_stack(state.item_stack, work)
    IN  IF self.panic # "none" THEN self
        ELSE IF state.position # DoingWork(factory_id)
        THEN Panic(self, "begin_vehicle_loading: position")
        ELSE IF ~lifo_matches(state.item_stack, work.unload_items)
        THEN Panic(self, "begin_vehicle_loading: LIFO")
        ELSE IF ~all_known(work.load_items, self.order_item_states)
        THEN Panic(self, "unchecked get_mut failed")
        ELSE IF ~all_known(item_stack, order_items)
        THEN Panic(self, "unchecked get failed")
        ELSE IF total_demand(item_stack) > capacity(vehicles[vehicle_id])
        THEN Panic(self, "begin_vehicle_loading: capacity")
        ELSE [self EXCEPT
                !.vehicle_states[vehicle_id].item_stack = item_stack,
                !.order_item_states = set_states(@, work.load_items, PickedUp)]
begin_vehicle_loading(self, vehicle_id, factory_id, work, time) ==
    LET state == self.vehicle_states[vehicle_id]
        item_stack == advance_stack(state.item_stack, work)
    IN  IF self.panic # "none" THEN self
        ELSE IF state.position # DoingWork(factory_id)
        THEN Panic(self, "begin_vehicle_loading: position")
        ELSE IF ~lifo_matches(state.item_stack, work.unload_items)
        THEN Panic(self, "begin_vehicle_loading: LIFO")
        ELSE IF ~all_known(work.load_items, self.order_item_states)
        THEN Panic(self, "unchecked get_mut failed")
        ELSE IF ~all_known(item_stack, order_items)
        THEN Panic(self, "unchecked get failed")
        ELSE IF total_demand(item_stack) > capacity(vehicles[vehicle_id])
        THEN Panic(self, "begin_vehicle_loading: capacity")
        ELSE [self EXCEPT
                !.vehicle_states[vehicle_id].item_stack = item_stack,
                !.order_item_states = set_states(@, work.load_items, PickedUp),
                !.events = push(@, FinishLoading(vehicle_id, factory_id,
                                                 Reverse(work.unload_items),
                                                 time + work.load_time + work.unload_time))]

begin_vehicle_transporting_mut(self, vehicle_id, factory_id, route, time) ==
    LET state == self.vehicle_states[vehicle_id]
        total_time == query_time(factory_id, route.destination)
    IN  IF self.panic # "none" THEN self
        ELSE IF ~all_known(route.work.load_items, self.order_item_states)
        THEN Panic(self, "unchecked get_mut failed")
        ELSE IF state.position # Idle(factory_id)
        THEN Panic(self, "begin_vehicle_transporting: position")
        ELSE IF ~lifo_matches(state.allocated_item_stack, route.work.unload_items)
        THEN Panic(self, "begin_vehicle_transporting: LIFO")
        ELSE IF total_time = DurationMAX
        THEN Panic(self, "NaiveDateTime + TimeDelta overflowed")
        ELSE [self EXCEPT
                !.order_item_states =
                    set_states(@, route.work.load_items \o route.work.unload_items, Allocated),
                !.total_distance = @ + query_distance(factory_id, route.destination),
                !.vehicle_states[vehicle_id].position = Transporting(factory_id, route.destination),
                !.vehicle_states[vehicle_id].allocated_item_stack = advance_stack(@, route.work),
                !.events = push(@, VehicleArrival(vehicle_id, route.destination, route.work, time + total_time))]

begin_vehicle_transporting(self, vehicle_id, factory_id, route, time) ==
    LET state == self.vehicle_states[vehicle_id]
        total_time == query_time(factory_id, route.destination)
    IN  IF self.panic # "none" THEN self
        ELSE IF ~all_known(route.work.load_items, self.order_item_states)
        THEN Panic(self, "unchecked get_mut failed")
        ELSE IF state.position # Idle(factory_id)
        THEN Panic(self, "begin_vehicle_transporting: position")
        ELSE IF ~lifo_matches(state.allocated_item_stack, route.work.unload_items)
        THEN Panic(self, "begin_vehicle_transporting: LIFO")
        ELSE IF total_time = DurationMAX
        THEN \* the push is the last statement: all the rest has been written
             Panic([self EXCEPT
                       !.order_item_states = set_states(@, route.work.load_items, Allocated),
                       !.total_distance = @ + query_distance(factory_id, route.destination),
                       !.vehicle_states[vehicle_id].position =
                           Transporting(factory_id, route.destination),
                       !.vehicle_states[vehicle_id].allocated_item_stack =
                           advance_stack(@, route.work)],
                   "NaiveDateTime + TimeDelta overflowed")
        ELSE [self EXCEPT
                !.order_item_states = set_states(@, route.work.load_items, Allocated),
                !.total_distance = @ + query_distance(factory_id, route.destination),
                !.vehicle_states[vehicle_id].position =
                    Transporting(factory_id, route.destination),
                !.vehicle_states[vehicle_id].allocated_item_stack =
                    advance_stack(@, route.work),
                !.events = push(@, VehicleArrival(vehicle_id, route.destination,
                                                  route.work, time + total_time))]

handle_order_arrival_mut(self, order_id, order_item_ids, time) ==
    IF ~all_known(order_item_ids, self.order_item_states)
    THEN Panic(self, "unchecked get_mut failed")
    ELSE [self EXCEPT !.order_item_states = set_states(@, Tail(order_item_ids), Unallocated)]
handle_order_arrival(self, order_id, order_item_ids, time) ==
    IF ~all_known(order_item_ids, self.order_item_states)
    THEN Panic(self, "unchecked get_mut failed")
    ELSE [self EXCEPT !.order_item_states = set_states(@, order_item_ids, Unallocated)]

handle_vehicle_arrival_keeps_position(self, vehicle_id, factory_id, work, time) ==
    LET position == self.vehicle_states[vehicle_id].position
    IN  IF ~(position[1] = "Transporting" /\ position[3] = factory_id)
        THEN Panic(self, "handle_vehicle_arrival: position")
        ELSE [self EXCEPT
                !.events = push(@, VehicleApproachedDock(vehicle_id, factory_id, work,
                                                         time + dock_approaching_time))]
handle_vehicle_arrival_mut(self, vehicle_id, factory_id, work, time) ==
    LET position == self.vehicle_states[vehicle_id].position
    IN  IF ~(position[1] = "Transporting" /\ position[3] = factory_id)
        THEN Panic(self, "handle_vehicle_arrival: position")
        ELSE [self EXCEPT
                !.vehicle_states[vehicle_id].position = DoingWork(factory_id),
                !.events = push(@, VehicleApproachedDock(vehicle_id, factory_id, work,
                                                         time))]
handle_vehicle_arrival(self, vehicle_id, factory_id, work, time) ==
    LET position == self.vehicle_states[vehicle_id].position
    IN  IF ~(position[1] = "Transporting" /\ position[3] = factory_id)
        THEN Panic(self, "handle_vehicle_arrival: position")
        ELSE [self EXCEPT
                !.vehicle_states[vehicle_id].position = DoingWork(factory_id),
                !.events = push(@, VehicleApproachedDock(vehicle_id, factory_id, work,
                                                         time + dock_approaching_time))]

\* handle_vehicle_approached_dock: no dock is free
dock_full_mut(state) == FALSE
dock_full(state) == state.num_avail_docks = 0

handle_vehicle_approached_dock_mut(self, vehicle_id, factory_id, work, time) ==
    IF dock_full(self.factory_states[factory_id])
    THEN [self EXCEPT !.factory_states[factory_id].queue = <<<<vehicle_id, work>>>> \o @]
    ELSE begin_vehicle_loading(
             [self EXCEPT !.factory_states[factory_id].num_avail_docks = @ - 1],
             vehicle_id, factory_id, work, time)
handle_vehicle_approached_dock(self, vehicle_id, factory_id, work, time) ==
    IF dock_full(self.factory_states[factory_id])
    THEN [self EXCEPT !.factory_states[factory_id].queue = Append(@, <<vehicle_id, work>>)]
    ELSE begin_vehicle_loading(
             [self EXCEPT !.factory_states[factory_id].num_avail_docks = @ - 1],
             vehicle_id, factory_id, work, time)

\* handle_finish_load, first part: hand the dock to the next vehicle or free it
release_dock_mut(self, factory_id, time) ==
    LET factory == self.factory_states[factory_id]
    IN  IF factory.queue # <<>>
        THEN begin_vehicle_loading(
                 [self EXCEPT !.factory_states[factory_id].queue = Tail(@),
                              !.factory_states[factory_id].num_avail_docks = @ + 1],
                 Head(factory.queue)[1], factory_id, Head(factory.queue)[2], time)
        ELSE [self EXCEPT !.factory_states[factory_id].num_avail_docks = @ + 1]
release_dock(self, factory_id, time) ==
    LET factory == self.factory_states[factory_id]
    IN  IF factory.queue # <<>>
        THEN begin_vehicle_loading(
                 [self EXCEPT !.factory_states[factory_id].queue = Tail(@)],
                 Head(factory.queue)[1], factory_id, Head(factory.queue)[2], time)
        ELSE [self EXCEPT !.factory_states[factory_id].num_avail_docks = @ + 1]

RECURSIVE sum_unload_time_mut(_)
sum_unload_time_mut(items) ==
    IF items = <<>> THEN 0 ELSE order_items[Head(items)].unload_time
RECURSIVE sum_unload_time(_)
sum_unload_time(items) ==
    IF items = <<>> THEN 0
    ELSE order_items[Head(items)].unload_time + sum_unload_time(Tail(items))

\* handle_finish_load, second part: the delivered items' states
mark_delivered(self, delivered_items, time) ==
    IF self.panic # "none" THEN self
    ELSE IF ~all_known(delivered_items, order_items)
    THEN Panic(self, "unchecked get failed")
    ELSE IF ~all_known(delivered_items, self.order_item_states)
    THEN Panic(self, "unchecked get_mut failed")
    ELSE [self EXCEPT !.order_item_states =
            [i \in DOMAIN @ |->
                IF i \in Range(delivered_items)
                THEN delivered(committed_completion_time(order_items[i], 0),
                               time - dock_approaching_time
                                    - sum_unload_time(delivered_items))
                ELSE @[i]]]

\* handle_finish_load, last part: the vehicle becomes idle and starts its next route
become_idle_mut(self, vehicle_id, factory_id, time) ==
    LET state == self.vehicle_states[vehicle_id]
    IN  IF self.panic # "none" THEN self
        ELSE IF state.position # DoingWork(factory_id)
        THEN Panic(self, "handle_finish_load: position")
        ELSE IF state.current_route # <<>>
        THEN begin_vehicle_transporting(
                 [self EXCEPT !.vehicle_states[vehicle_id].current_route = Tail(@)],
                 vehicle_id, factory_id, Head(state.current_route), time)
        ELSE self
become_idle(self, vehicle_id, factory_id, time) ==
    LET state == self.vehicle_states[vehicle_id]
        idle == [self EXCEPT !.vehicle_states[vehicle_id].position = Idle(factory_id)]
    IN  IF self.panic # "none" THEN self
        ELSE IF state.position # DoingWork(factory_id)
        THEN Panic(self, "handle_finish_load: position")
        ELSE IF state.current_route # <<>>
        THEN begin_vehicle_transporting(
                 [idle EXCEPT !.vehicle_states[vehicle_id].current_route = Tail(@)],
                 vehicle_id, factory_id, Head(state.current_route), time)
        ELSE idle

handle_finish_load_mut(self, vehicle_id, factory_id, delivered_items, time) ==
    LET served == mark_delivered(release_dock(self, factory_id, time), delivered_items, time)
    IN  IF served.panic # "none" THEN served
        ELSE [served EXCEPT !.vehicle_states[vehicle_id].position = Idle(factory_id)]
handle_finish_load(self, vehicle_id, factory_id, delivered_items, time) ==
    become_idle(mark_delivered(release_dock(self, factory_id, time),
                               delivered_items, time),
                vehicle_id, factory_id, time)

----------------------------------------------------------------------------
(* simulation::simulator: the plan validator.  check_planned_routes returns *)
(* "Ok", the reason of the Err it returns, or the panic it dies of.  The    *)
(* shadow state of one vehicle's list is the record                         *)
(*   [total_demand, item_stack, item_states, result].                       *)

group_order_item_ids(ids) == {ids[k].order_id : k \in DOMAIN ids}

\* check_order_split: some order that fits the vehicle is only partly in item_ids
order_is_split(item_ids_, capacity_) ==
    \E order_id \in group_order_item_ids(item_ids_) :
        /\ contains_key(orders, order_id)
        /\ calc_demand(orders[order_id]) <= capacity_
        /\ \E k \in DOMAIN item_ids(orders[order_id]) :
              item_ids(orders[order_id])[k] \notin Range(item_ids_)

check_order_split_mut(item_ids_, capacity_) == "Ok"
check_order_split(item_ids_, capacity_) ==
    IF \E order_id \in group_order_item_ids(item_ids_) : ~contains_key(orders, order_id)
    THEN "InvalidOrderId"
    ELSE IF order_is_split(item_ids_, capacity_) THEN "OrderSplit"
    ELSE "Ok"

\* the capacity test of one route
exceeds_capacity_mut(total_demand_, info) == FALSE
exceeds_capacity(total_demand_, info) == total_demand_ > capacity(info)

\* item_stack.pop() == Some(item)
pops_item_mut(stack, item) == TRUE
pops_item(stack, item) == stack # <<>> /\ stack[Len(stack)] = item

\* the order in which a route's unload_items are checked: iter().rev()
unload_order_mut(items) == items
unload_order(items) == Reverse(items)

\* the body of the loop over unload_items (reversed), for one item
check_unload_item_mut(shadow, item, destination) ==
    IF ~pops_item(shadow.item_stack, item)
    THEN [shadow EXCEPT !.result = "LifoViolation"]
    ELSE IF ~contains_key(order_items, item)
    THEN [shadow EXCEPT !.result = "InvalidOrderItemId"]
    ELSE IF ~contains_key(shadow.item_states, item)
    THEN [shadow EXCEPT !.result = "InvalidOrderItemId"]
    ELSE IF shadow.item_states[item] # Allocated /\ shadow.item_states[item] # PickedUp
    THEN [shadow EXCEPT !.result = "UnloadingUnready"]
    ELSE [shadow EXCEPT
            !.item_stack = SubSeq(@, 1, Len(@) - 1),
            !.item_states[item] = delivered_irrelevant]
check_unload_item(shadow, item, destination) ==
    IF ~pops_item(shadow.item_stack, item)
    THEN [shadow EXCEPT !.result = "LifoViolation"]
    ELSE IF ~contains_key(order_items, item)
    THEN [shadow EXCEPT !.result = "InvalidOrderItemId"]
    ELSE IF order_items[item].delivery_id # destination
    THEN [shadow EXCEPT !.result = "WrongDeliveryLocation"]
    ELSE IF ~contains_key(shadow.item_states, item)
    THEN [shadow EXCEPT !.result = "InvalidOrderItemId"]
    ELSE IF shadow.item_states[item] # Allocated /\ shadow.item_states[item] # PickedUp
    THEN [shadow EXCEPT !.result = "UnloadingUnready"]
    ELSE [shadow EXCEPT
            !.item_stack = SubSeq(@, 1, Len(@) - 1),
            !.item_states[item] = delivered_irrelevant]

\* the body of the loop over load_items, for one item
check_load_item_mut(shadow, item, destination) ==
    IF ~contains_key(order_items, item)
    THEN [shadow EXCEPT !.result = "panic: unchecked get failed"]
    ELSE IF order_items[item].pickup_id # destination
    THEN [shadow EXCEPT !.result = "WrongPickupLocation"]
    ELSE IF ~contains_key(shadow.item_states, item)
    THEN [shadow EXCEPT !.result = "InvalidOrderItemId"]
    ELSE IF shadow.item_states[item] # Unallocated
    THEN [shadow EXCEPT !.result = "LoadingUnready"]
    ELSE [shadow EXCEPT !.item_stack = Append(@, item)]
check_load_item(shadow, item, destination) ==
    IF ~contains_key(order_items, item)
    THEN [shadow EXCEPT !.result = "panic: unchecked get failed"]
    ELSE IF order_items[item].pickup_id # destination
    THEN [shadow EXCEPT !.result = "WrongPickupLocation"]
    ELSE IF ~contains_key(shadow.item_states, item)
    THEN [shadow EXCEPT !.result = "InvalidOrderItemId"]
    ELSE IF shadow.item_states[item] # Unallocated
    THEN [shadow EXCEPT !.result = "LoadingUnready"]
    ELSE [shadow EXCEPT
            !.item_stack = Append(@, item),
            !.item_states[item] = PickedUp]

RECURSIVE check_unload_items(_, _, _)
check_unload_items(shadow, items, destination) ==
    IF items = <<>> \/ shadow.result # "Ok" THEN shadow
    ELSE check_unload_items(check_unload_item(shadow, Head(items), destination),
                            Tail(items), destination)

RECURSIVE check_load_items(_, _, _)
check_load_items(shadow, items, destination) ==
    IF items = <<>> \/ shadow.result # "Ok" THEN shadow
    ELSE check_load_items(check_load_item(shadow, Head(items), destination),
                          Tail(items), destination)

\* the body of the loop over one vehicle's routes, for one route
check_route(shadow, route, info) ==
    LET total == shadow.total_demand + delta_demand(route.work)
        counted == [shadow EXCEPT !.total_demand = total]
        unloaded == check_unload_items(counted, unload_order(route.work.unload_items),
                                       route.destination)
        loaded == check_load_items(unloaded, route.work.load_items, route.destination)
        split_load == check_order_split(route.work.load_items, capacity(info))
        split_unload == check_order_split(route.work.unload_items, capacity(info))
    IN  IF ~all_known(route.work.load_items \o route.work.unload_items, order_items)
        THEN [shadow EXCEPT !.result = "panic: unchecked get failed"]
        ELSE IF exceeds_capacity(total, info)
        THEN [shadow EXCEPT !.result = "CapacityViolation"]
        ELSE IF loaded.result # "Ok" THEN loaded
        ELSE IF split_load # "Ok" THEN [loaded EXCEPT !.result = split_load]
        ELSE [loaded EXCEPT !.result = split_unload]

RECURSIVE check_routes(_, _, _)
check_routes(shadow, routes_, info) ==
    IF routes_ = <<>> \/ shadow.result # "Ok" THEN shadow
    ELSE check_routes(check_route(shadow, Head(routes_), info), Tail(routes_), info)

\* the shadow state a vehicle's list starts from
initial_shadow(self, vehicle_id) ==
    [total_demand |-> total_demand(self.vehicle_states[vehicle_id].allocated_item_stack),
     item_stack |-> self.vehicle_states[vehicle_id].allocated_item_stack,
     item_states |-> self.order_item_states,
     result |-> "Ok"]

\* the body of the loop over the plan's vehicles, for one vehicle
check_vehicle_routes(self, vehicle_id, routes_) ==
    IF ~contains_key(vehicles, vehicle_id) \/ ~contains_key(self.vehicle_states, vehicle_id)
    THEN "InvalidVehicleId"
    ELSE IF ~all_known(self.vehicle_states[vehicle_id].allocated_item_stack, order_items)
    THEN "panic: unchecked get failed"
    ELSE IF initial_shadow(self, vehicle_id).total_demand > capacity(vehicles[vehicle_id])
    THEN "panic: check_planned_routes: capacity"
    ELSE check_routes(initial_shadow(self, vehicle_id), routes_, vehicles[vehicle_id]).result

RECURSIVE check_vehicles(_, _, _)
check_vehicles(self, plan, vehicle_ids) ==
    IF vehicle_ids = <<>> THEN "Ok"
    ELSE LET result == check_vehicle_routes(self, Head(vehicle_ids), plan[Head(vehicle_ids)])
         IN  IF result # "Ok" THEN result
             ELSE check_vehicles(self, plan, Tail(vehicle_ids))

check_planned_routes(self, plan) == check_vehicles(self, plan, SortedKeys(DOMAIN plan))

----------------------------------------------------------------------------
(* simulation::simulator: handle_timestep *)

RECURSIVE install_routes_mut(_, _, _, _)
install_routes_mut(self, plan, vehicle_ids, time) ==
    IF vehicle_ids = <<>> \/ self.panic # "none" THEN self
    ELSE LET vehicle_id == Head(vehicle_ids)
             routes_ == self.vehicle_states[vehicle_id].current_route \o plan[vehicle_id]
             position == self.vehicle_states[vehicle_id].position
             replaced == [self EXCEPT !.vehicle_states[vehicle_id].current_route = routes_]
             started == IF position[1] = "Idle" /\ routes_ # <<>>
                        THEN begin_vehicle_transporting(
                                 [self EXCEPT !.vehicle_states[vehicle_id].current_route = Tail(routes_)],
                                 vehicle_id, position[2], Head(routes_), time)
                        ELSE replaced
         IN  install_routes_mut(started, plan, Tail(vehicle_ids), time)

RECURSIVE install_routes(_, _, _, _)
install_routes(self, plan, vehicle_ids, time) ==
    IF vehicle_ids = <<>> \/ self.panic # "none" THEN self
    ELSE LET vehicle_id == Head(vehicle_ids)
             routes_ == plan[vehicle_id]
             position == self.vehicle_states[vehicle_id].position
             replaced == [self EXCEPT !.vehicle_states[vehicle_id].current_route = routes_]
             started ==
                 IF position[1] = "Idle" /\ routes_ # <<>>
                 THEN begin_vehicle_transporting(
                          [self EXCEPT !.vehicle_states[vehicle_id].current_route =
                                           Tail(routes_)],
                          vehicle_id, position[2], Head(routes_), time)
                 ELSE replaced
         IN  install_routes(started, plan, Tail(vehicle_ids), time)

\* some item is not Delivered yet
not_all_delivered_mut(self) == TRUE
not_all_delivered(self) ==
    \E i \in DOMAIN self.order_item_states : self.order_item_states[i].tag # "Delivered"

next_timestep_mut(self, time, intervals) ==
    IF self.panic # "none" THEN self
    ELSE IF not_all_delivered(self)
    THEN [self EXCEPT !.events = push(@, UpdateTimestep(time + time_interval + intervals))]
    ELSE self
next_timestep(self, time, intervals) ==
    IF self.panic # "none" THEN self
    ELSE IF not_all_delivered(self)
    THEN [self EXCEPT !.events = push(@, UpdateTimestep(time + time_interval * intervals))]
    ELSE self

ValidatorPanics == {"panic: unchecked get failed", "panic: check_planned_routes: capacity"}

\* plan: what scheduler.schedule returned; intervals: 1 + the whole intervals
\* its wall-clock cost spans
\* the number of intervals to the next tick, from the scheduler's measured cost
intervals_of_mut(schedule_time) == schedule_time \div time_interval
intervals_of(schedule_time) == 1 + schedule_time \div time_interval

handle_timestep(self, time, plan, intervals) ==
    LET measured == [self EXCEPT !.total_distance_last_timeslot = self.total_distance]
        result == check_planned_routes(self, plan)
    IN  IF result = "Ok"
        THEN next_timestep(install_routes(measured, plan, SortedKeys(DOMAIN plan), time),
                           time, intervals)
        ELSE IF result \in ValidatorPanics THEN Panic(self, result)
        ELSE Panic(self, "invalid planning routes")

\* the dispatch on the event's kind; plan and intervals are what the scheduler
\* returns and costs if the event is a tick
handle_event(self, event, plan, intervals) ==
    CASE event.kind = "OrderArrival" ->
             handle_order_arrival(self, event.order_id, event.order_item_ids, event.time)
      [] event.kind = "VehicleArrival" ->
             handle_vehicle_arrival(self, event.vehicle_id, event.factory_id, event.work,
                                    event.time)
      [] event.kind = "VehicleApproachedDock" ->
             handle_vehicle_approached_dock(self, event.vehicle_id, event.factory_id,
                                            event.work, event.time)
      [] event.kind = "FinishLoading" ->
             handle_finish_load(self, event.vehicle_id, event.factory_id,
                                event.delivered_items, event.time)
      [] event.kind = "UpdateTimestep" ->
             handle_timestep(self, event.time, plan, intervals)

\* simulate_until(until) with a scheduler that returns the plans of the list, one
\* per tick, and the empty plan afterwards; the result is <<self, clock>>
RECURSIVE simulate_until(_, _, _, _)
simulate_until(self, clock, plans, until) ==
    IF self.panic # "none" \/ self.events = <<>> \/ peek(self.events).time > until
    THEN <<self, clock>>
    ELSE LET event == peek(self.events)
             tick == event.kind = "UpdateTimestep"
         IN  simulate_until(
                 handle_event([self EXCEPT !.events = pop(@)], event,
                              IF plans = <<>> THEN <<>> ELSE Head(plans), 1),
                 event.time,
                 IF tick /\ plans # <<>> THEN Tail(plans) ELSE plans,
                 until)

----------------------------------------------------------------------------
(* Simulator::new *)

RECURSIVE seed_order_arrivals(_, _, _)
seed_order_arrivals(queue, order_map, order_ids) ==
    IF order_ids = <<>> THEN queue
    ELSE seed_order_arrivals(
             push(queue, OrderArrival(Head(order_ids), item_ids(order_map[Head(order_ids)]),
                                      order_map[Head(order_ids)].creation_time)),
             order_map, Tail(order_ids))

items_of(order_map) ==
    UNION {Range(into_items(order_map[o])) : o \in DOMAIN order_map}

order_items_of(order_map) ==
    [id \in {item.id : item \in items_of(order_map)} |->
        CHOOSE item \in items_of(order_map) : item.id = id]

\* the static catalog of the instance
load(instance) ==
    /\ routes = instance.routes
    /\ factories = instance.factories
    /\ vehicles = instance.vehicles
    /\ orders = instance.orders
    /\ order_items = order_items_of(instance.orders)

\* the mutable part of the Simulator that Simulator::new returns
new(instance, initial_position) ==
    [vehicle_states |->
         [v \in DOMAIN instance.vehicles |-> VehicleState(initial_position[v])],
     factory_states |->
         [f \in DOMAIN instance.factories |-> FactoryState(instance.factories[f].port_num)],
     order_item_states |->
         [i \in DOMAIN order_items_of(instance.orders) |-> Unavailable],
     events |-> push(seed_order_arrivals(<<>>, instance.orders,
                                         SortedKeys(DOMAIN instance.orders)),
                     UpdateTimestep(0)),
     total_distance |-> 0,
     total_distance_last_timeslot |-> 0,
     panic |-> "none"]

----------------------------------------------------------------------------
(* Simulator::fork.  The Simulator it returns is the record of its catalog  *)
(* and its stores; static_deadline is <<>> for None and <<t>> for Some(t).  *)

\* retain: the entries created at static_deadline or before
retain_mut(map, static_deadline) ==
    [k \in {k \in DOMAIN map : 0 + map[k].creation_time < static_deadline} |-> map[k]]
retain(map, static_deadline) ==
    [k \in {k \in DOMAIN map : 0 + map[k].creation_time <= static_deadline} |-> map[k]]

fork_mut(self, static_deadline) ==
    [routes |-> routes,
     factories |-> factories,
     vehicles |-> vehicles,
     orders |-> IF static_deadline # <<>> THEN retain(orders, static_deadline[1]) ELSE orders,
     order_items |-> IF static_deadline # <<>> THEN retain(order_items, static_deadline[1])
                     ELSE order_items,
     vehicle_states |-> self.vehicle_states,
     factory_states |-> self.factory_states,
     order_item_states |-> self.order_item_states,
     events |-> self.events,
     total_distance |-> self.total_distance_last_timeslot,
     total_distance_last_timeslot |-> self.total_distance_last_timeslot,
     panic |-> self.panic]
fork(self, static_deadline) ==
    [routes |-> routes,
     factories |-> factories,
     vehicles |-> vehicles,
     orders |-> IF static_deadline # <<>> THEN retain(orders, static_deadline[1]) ELSE orders,
     order_items |-> IF static_deadline # <<>> THEN retain(order_items, static_deadline[1])
                     ELSE order_items,
     vehicle_states |-> self.vehicle_states,
     factory_states |-> self.factory_states,
     order_item_states |-> self.order_item_states,
     events |-> self.events,
     total_distance |-> self.total_distance,
     total_distance_last_timeslot |-> self.total_distance_last_timeslot,
     panic |-> self.panic]

\* NoopScheduler::schedule: the empty plan
noop_schedule == <<>>

\* the stores of a Simulator, as the record the handlers work on
stores(sim) ==
    [vehicle_states |-> sim.vehicle_states,
     factory_states |-> sim.factory_states,
     order_item_states |-> sim.order_item_states,
     events |-> sim.events,
     total_distance |-> sim.total_distance,
     total_distance_last_timeslot |-> sim.total_distance_last_timeslot,
     panic |-> sim.panic]

\* the item ids the handler of the event passes to self.order_items.gets
gets_items(self, event) ==
    CASE event.kind = "UpdateTimestep" ->
             {i \in DOMAIN self.order_item_states : self.order_item_states[i] # Unavailable}
      [] event.kind = "VehicleApproachedDock" ->
             IF dock_full(self.factory_states[event.factory_id]) THEN {}
             ELSE Range(advance_stack(self.vehicle_states[event.vehicle_id].item_stack,
                                      event.work))
      [] event.kind = "FinishLoading" ->
             LET queue == self.factory_states[event.factory_id].queue
             IN  Range(event.delivered_items)
                 \cup IF queue = <<>> THEN {}
                      ELSE Range(advance_stack(
                                     self.vehicle_states[Head(queue)[1]].item_stack,
                                     Head(queue)[2]))
      [] OTHER -> {}

\* the order ids the handler of the event passes to self.orders.gets: those of the
\* summary that the tick prints once every item is Delivered
gets_orders(self, event) ==
    IF event.kind = "UpdateTimestep" /\ ~not_all_delivered(self)
    THEN {i.order_id : i \in DOMAIN self.order_item_states}
    ELSE {}

\* simulate_step on a Simulator that fork returned with the NoopScheduler: the
\* handlers look its items and orders up in its own catalog
fork_step(sim) ==
    LET self == stores(sim)
        event == peek(self.events)
        taken == [self EXCEPT !.events = pop(@)]
        result == IF /\ gets_items(taken, event) \subseteq DOMAIN sim.order_items
                     /\ gets_orders(taken, event) \subseteq DOMAIN sim.orders
                  THEN handle_event(taken, event, noop_schedule, 1)
                  ELSE Panic(taken, "unchecked get failed")
    IN  IF result.panic # "none" THEN [sim EXCEPT !.panic = result.panic]
        ELSE [sim EXCEPT !.vehicle_states = result.vehicle_states,
                         !.factory_states = result.factory_states,
                         !.order_item_states = result.order_item_states,
                         !.events = result.events,
                         !.total_distance = result.total_distance,
                         !.total_distance_last_timeslot = result.total_distance_last_timeslot]

----------------------------------------------------------------------------
(* The instance the kernel runs on, and what a scheduler may return *)

Order(order_id, q_standard, q_small, q_box, creation_time, committed, pickup_id, delivery_id) ==
    [order_id |-> order_id, q_standard |-> q_standard, q_small |-> q_small,
     q_box |-> q_box, creation_time |-> creation_time,
     committed_completion_time |-> committed, load_time |-> 120, unload_time |-> 120,
     pickup_id |-> pickup_id, delivery_id |-> delivery_id]

\* two factories with one dock each, a one-pallet and a two-pallet vehicle, an
\* order of two Small items known from the start and a later order of one Standard item
KernelInstance ==
    [routes |-> (<<"A", "B">> :> [distance |-> 7, time |-> 600])
                @@ (<<"B", "A">> :> [distance |-> 9, time |-> 900]),
     factories |-> [f \in {"A", "B"} |-> [port_num |-> 1]],
     vehicles |-> (1 :> [capacity |-> 1]) @@ (2 :> [capacity |-> 2]),
     orders |-> (1 :> Order(1, 0, 2, 0, 0, 7200, "A", "B"))
                @@ (2 :> Order(2, 1, 0, 0, 3000, 1000, "A", "B"))]

\* VehicleInitialPosition::Deterministic: every vehicle starts at factory A
KernelInitialPosition == [v \in DOMAIN KernelInstance.vehicles |-> "A"]

\* item lists of at most n items
ItemLists(n) == UNION {[1..k -> DOMAIN order_items] : k \in 0..n}

\* the routes a scheduler builds (VehicleRoute::new over VehicleWork::new)
Routes ==
    {VehicleRoute(d, VehicleWork(l, u)) :
        d \in DOMAIN factories, l \in ItemLists(MaxItems), u \in ItemLists(MaxItems)}

\* the lists of at most n routes that check_planned_routes accepts for the vehicle
RECURSIVE accepted_lists(_, _, _)
accepted_lists(self, vehicle_id, n) ==
    IF n = 0 THEN {<<>>}
    ELSE LET shorter == accepted_lists(self, vehicle_id, n - 1)
         IN  shorter \cup
             {Append(l, r) : <<l, r>> \in
                 {lr \in {x \in shorter : Len(x) = n - 1} \X Routes :
                     check_vehicle_routes(self, vehicle_id, Append(lr[1], lr[2])) = "Ok"}}

\* the plans of the vocabulary, over these vehicles, that check_planned_routes accepts
RECURSIVE accepted_plans(_, _)
accepted_plans(self, vehicle_ids) ==
    IF vehicle_ids = <<>> THEN {<<>>}
    ELSE LET rest == accepted_plans(self, Tail(vehicle_ids))
             lists == accepted_lists(self, Head(vehicle_ids), MaxRoutes)
         IN  rest \cup {(Head(vehicle_ids) :> l) @@ plan : l \in lists, plan \in rest}

AcceptedPlans(self) == accepted_plans(self, SortedKeys(DOMAIN vehicles))

\* one-vehicle plans of at most one route
ShortPlans ==
    {(v :> <<>>) : v \in DOMAIN vehicles} \cup {(v :> <<r>>) : v \in DOMAIN vehicles, r \in Routes}

\* the vehicles that are Idle with nothing on board and nothing planned
free_vehicles(self) ==
    {v \in DOMAIN self.vehicle_states :
        /\ self.vehicle_states[v].position[1] = "Idle"
        /\ self.vehicle_states[v].allocated_item_stack = <<>>
        /\ self.vehicle_states[v].current_route = <<>>}

\* the orders all of whose items are Unallocated
waiting_orders(self) ==
    {o \in DOMAIN orders :
        \A k \in DOMAIN item_ids(orders[o]) :
            self.order_item_states[item_ids(orders[o])[k]] = Unallocated}

\* a deterministic scheduler that plans every available order: in order of id,
\* each waiting order goes to the first free vehicle that can carry it, which is
\* to load it whole at its pickup factory and to unload it at its delivery factory
RECURSIVE dispatch_orders(_, _, _)
dispatch_orders(order_ids, free, plan) ==
    IF order_ids = <<>> THEN plan
    ELSE LET order == orders[Head(order_ids)]
             able == {v \in free : calc_demand(order) <= capacity(vehicles[v])}
         IN  IF able = {} THEN dispatch_orders(Tail(order_ids), free, plan)
             ELSE LET v == Head(SortedKeys(able))
                      trip == <<VehicleRoute(order.pickup_id,
                                             VehicleWork(item_ids(order), <<>>)),
                                VehicleRoute(order.delivery_id,
                                             VehicleWork(<<>>, item_ids(order)))>>
                  IN  dispatch_orders(Tail(order_ids), free \ {v}, (v :> trip) @@ plan)

dispatch(self) ==
    dispatch_orders(SortedKeys(waiting_orders(self)), free_vehicles(self), <<>>)

----------------------------------------------------------------------------
(* The kernel: simulate_until(Until) *)

\* the Simulator holds the record self
Holds(self) ==
    /\ vehicle_states = self.vehicle_states
    /\ factory_states = self.factory_states
    /\ order_item_states = self.order_item_states
    /\ events = self.events
    /\ total_distance = self.total_distance
    /\ total_distance_last_timeslot = self.total_distance_last_timeslot
    /\ panic = self.panic

Init ==
    /\ load(KernelInstance)
    /\ Holds(new(KernelInstance, KernelInitialPosition))
    /\ now = 0
    /\ planned_routes = <<>>
    /\ verdict = "none"
    /\ pushed = 0
    /\ popped = <<>>
    /\ forked = <<>>

\* simulate_until's loop condition, and the run has not died
CanStep(kind) ==
    /\ panic = "none"
    /\ events # <<>>
    /\ peek(events).time <= Until
    /\ peek(events).kind = kind

\* simulate_step has taken the event out of the queue
Taken == [Self EXCEPT !.events = pop(events)]

\* the handler's result becomes the state; a run that died keeps none
Becomes(self, time) ==
    /\ now' = time
    /\ panic' = self.panic
    /\ IF self.panic = "none"
       THEN /\ vehicle_states' = self.vehicle_states
            /\ factory_states' = self.factory_states
            /\ order_item_states' = self.order_item_states
            /\ events' = self.events
            /\ total_distance' = self.total_distance
            /\ total_distance_last_timeslot' = self.total_distance_last_timeslot
       ELSE UNCHANGED <<vehicle_states, factory_states, order_item_states, events,
                        total_distance, total_distance_last_timeslot>>

Commit(self, time) ==
    /\ Becomes(self, time)
    /\ UNCHANGED <<static, planned_routes, verdict, pushed, popped, forked>>

StepOrderArrival ==
    /\ CanStep("OrderArrival")
    /\ LET e == peek(events)
       IN  Commit(handle_order_arrival(Taken, e.order_id, e.order_item_ids, e.time), e.time)

StepVehicleArrival ==
    /\ CanStep("VehicleArrival")
    /\ LET e == peek(events)
       IN  Commit(handle_vehicle_arrival(Taken, e.vehicle_id, e.factory_id, e.work, e.time),
                  e.time)

StepVehicleApproachedDock ==
    /\ CanStep("VehicleApproachedDock")
    /\ LET e == peek(events)
       IN  Commit(handle_vehicle_approached_dock(Taken, e.vehicle_id, e.factory_id, e.work,
                                                 e.time), e.time)

StepFinishLoading ==
    /\ CanStep("FinishLoading")
    /\ LET e == peek(events)
       IN  Commit(handle_finish_load(Taken, e.vehicle_id, e.factory_id, e.delivered_items,
                                     e.time), e.time)

\* the scheduler returns a plan the validator accepts
StepUpdateTimestep ==
    /\ CanStep("UpdateTimestep")
    /\ \E plan \in AcceptedPlans(Taken), intervals \in 1..MaxIntervals :
          Commit(handle_timestep(Taken, peek(events).time, plan, intervals),
                 peek(events).time)

\* the scheduler returns a plan the validator refuses
StepUpdateTimestepInvalid ==
    /\ CanStep("UpdateTimestep")
    /\ \E plan \in ShortPlans :
          /\ check_planned_routes(Taken, plan) # "Ok"
          /\ Commit(handle_timestep(Taken, peek(events).time, plan, 1), peek(events).time)

Next ==
    \/ StepOrderArrival
    \/ StepVehicleArrival
    \/ StepVehicleApproachedDock
    \/ StepFinishLoading
    \/ StepUpdateTimestep
    \/ StepUpdateTimestepInvalid

Spec == Init /\ [][Next]_vars

\* the loop condition of simulate_until(Until), in a run that has not died
Running ==
    /\ panic = "none"
    /\ events # <<>>
    /\ peek(events).time <= Until

\* the loop runs while its condition holds.  This is WF_vars(Next) written out:
\* Next is enabled exactly when Running, and as every step that changes vars is a
\* step of Next, a step of Next is a step that changes vars and starts in Running
SpecT == Spec /\ ([]<>~Running \/ []<><<Running>>_vars)

----------------------------------------------------------------------------
(* The event queue on its own: any sequence of push and pop.  The n-th event *)
(* pushed is the arrival of order n, so that events are told apart.          *)

InitQ ==
    /\ load(KernelInstance)
    /\ Holds([new(KernelInstance, KernelInitialPosition) EXCEPT !.events = <<>>])
    /\ now = 0
    /\ planned_routes = <<>>
    /\ verdict = "none"
    /\ pushed = 0
    /\ popped = <<>>
    /\ forked = <<>>

QPush ==
    /\ pushed < MaxPush
    /\ \E time \in 0..MaxStamp :
          events' = push(events, OrderArrival(pushed + 1, <<>>, time))
    /\ pushed' = pushed + 1
    /\ UNCHANGED <<static, vehicle_states, factory_states, order_item_states,
                   total_distance, total_distance_last_timeslot, now, panic,
                   planned_routes, verdict, popped, forked>>

QPop ==
    /\ events # <<>>
    /\ popped' = Append(popped, peek(events))
    /\ events' = pop(events)
    /\ UNCHANGED <<static, vehicle_states, factory_states, order_item_states,
                   total_distance, total_distance_last_timeslot, now, panic,
                   planned_routes, verdict, pushed, forked>>

NextQ == QPush \/ QPop

SpecQ == InitQ /\ [][NextQ]_vars

----------------------------------------------------------------------------
(* The validator on its own: check_planned_routes applied, in states the     *)
(* kernel reaches, to one vehicle's list as it grows route by route.         *)

\* one vehicle of 8 pallets and one order of 10 Standard items
SplitInstance ==
    [routes |-> KernelInstance.routes,
     factories |-> KernelInstance.factories,
     vehicles |-> (1 :> [capacity |-> 8]),
     orders |-> (1 :> Order(1, 10, 0, 0, 0, 7200, "A", "B"))]

\* the runs the kernel has made before the plan is checked: the plans of its
\* earlier ticks and the time it has simulated until
ValidatorCases ==
    {[instance |-> KernelInstance, plans |-> <<>>, until |-> 0],
     [instance |-> KernelInstance,
      plans |-> <<(1 :> <<VehicleRoute("A", [load_items |-> item_ids(KernelInstance.orders[1]),
                                              unload_items |-> <<>>,
                                              load_time |-> 240, unload_time |-> 0])>>)>>,
      until |-> 3000],
     [instance |-> KernelInstance,
      plans |-> <<(1 :> <<VehicleRoute("A", [load_items |-> item_ids(KernelInstance.orders[1]),
                                              unload_items |-> <<>>,
                                              load_time |-> 240, unload_time |-> 0])>>)>>,
      until |-> 0],
     [instance |-> KernelInstance,
      plans |-> <<(1 :> <<VehicleRoute("A", [load_items |-> item_ids(KernelInstance.orders[1]),
                                              unload_items |-> <<>>,
                                              load_time |-> 240, unload_time |-> 0]),
                          VehicleRoute("B", [load_items |-> <<>>,
                                              unload_items |-> item_ids(KernelInstance.orders[1]),
                                              load_time |-> 0, unload_time |-> 240])>>)>>,
      until |-> 5000],
     [instance |-> SplitInstance, plans |-> <<>>, until |-> 0]}

\* the items of order 1 from the i-th to the j-th
Chunk(i, j) == SubSeq(item_ids(orders[1]), i, j)

\* rounds of the split order: a full vehicle or more, and what is left of the order
SplitRoutes ==
    LET n == Len(item_ids(orders[1]))
        full == vehicles[1].capacity
        chunks == {Chunk(1, j) : j \in full..n} \cup {Chunk(full + 1, j) : j \in (full + 1)..n}
    IN  {VehicleRoute("A", VehicleWork(c, <<>>)) : c \in chunks}
        \cup {VehicleRoute("B", VehicleWork(<<>>, c)) : c \in chunks}

\* the routes tried, and how many of them in one list
RoutesV == IF orders = SplitInstance.orders THEN SplitRoutes ELSE Routes

MaxRoutesV == IF orders = SplitInstance.orders THEN 2 * MaxRoutes ELSE MaxRoutes

InitV ==
    \E case \in ValidatorCases :
        /\ load(case.instance)
        /\ LET run == simulate_until(
                          new(case.instance, [v \in DOMAIN case.instance.vehicles |-> "A"]),
                          0, case.plans, case.until)
           IN  /\ Holds(run[1])
               /\ now = run[2]
        /\ planned_routes = <<>>
        /\ verdict = check_planned_routes(Self, <<>>)
        /\ pushed = 0
        /\ popped = <<>>
        /\ forked = <<>>

\* the first vehicle of the plan, with no route yet
VStart ==
    /\ planned_routes = <<>>
    /\ \E v \in DOMAIN vehicles : planned_routes' = (v :> <<>>)
    /\ verdict' = check_planned_routes(Self, planned_routes')
    /\ UNCHANGED <<static, kernel, pushed, popped, forked>>

\* one more route for the vehicle of a plan accepted so far
VExtend ==
    /\ verdict = "Ok"
    /\ \E v \in DOMAIN planned_routes, r \in RoutesV :
          /\ Len(planned_routes[v]) < MaxRoutesV
          /\ planned_routes' = [planned_routes EXCEPT ![v] = Append(@, r)]
    /\ verdict' = check_planned_routes(Self, planned_routes')
    /\ UNCHANGED <<static, kernel, pushed, popped, forked>>

NextV == VStart \/ VExtend

SpecV == InitV /\ [][NextV]_vars

----------------------------------------------------------------------------
(* Fork: the kernel runs with the scheduler dispatch; at some event it is   *)
(* forked with the NoopScheduler, and from then on parent and fork step     *)
(* in any interleaving.                                                     *)

\* the deadlines tried: none, the clock, and the times around an order's creation
ForkDeadlines ==
    {<<>>, <<now>>}
    \cup {<<orders[o].creation_time + d>> : o \in DOMAIN orders, d \in {-1, 0, 1}}

InitF ==
    /\ load(KernelInstance)
    /\ Holds(new(KernelInstance, KernelInitialPosition))
    /\ now = 0
    /\ planned_routes = <<>>
    /\ verdict = "none"
    /\ pushed = 0
    /\ popped = <<>>
    /\ forked = <<>>

Fork ==
    /\ forked = <<>>
    /\ panic = "none"
    /\ \E static_deadline \in ForkDeadlines : forked' = <<fork(Self, static_deadline), static_deadline>>
    /\ UNCHANGED <<static, kernel, planned_routes, verdict, pushed, popped>>

\* simulate_step on the parent
ParentStep ==
    /\ panic = "none"
    /\ events # <<>>
    /\ peek(events).time <= Until
    /\ Commit(handle_event(Taken, peek(events), dispatch(Taken), 1), peek(events).time)

\* simulate_step on the fork
ForkStep ==
    /\ forked # <<>>
    /\ forked[1].panic = "none"
    /\ forked[1].events # <<>>
    /\ peek(forked[1].events).time <= Until
    /\ forked' = <<fork_step(forked[1]), forked[2]>>
    /\ UNCHANGED <<static, kernel, planned_routes, verdict, pushed, popped>>

NextF == Fork \/ ParentStep \/ ForkStep

SpecF == InitF /\ [][NextF]_vars

----------------------------------------------------------------------------
(* The whole run: simulate_until with a horizon no run comes near, the      *)
(* scheduler dispatch, and a scheduling cost that the host's clock decides  *)
(* at every tick.                                                           *)

\* KernelInstance with a third order that arrives later and goes the other way
LiveInstance ==
    [KernelInstance EXCEPT
        !.orders = @ @@ (3 :> Order(3, 0, 0, 1, 13000, 20000, "B", "A"))]

InitL ==
    /\ load(LiveInstance)
    /\ Holds(new(LiveInstance, KernelInitialPosition))
    /\ now = 0
    /\ planned_routes = <<>>
    /\ verdict = "none"
    /\ pushed = 0
    /\ popped = <<>>
    /\ forked = <<>>

\* simulate_until's loop condition under the horizon
CanStepL ==
    /\ panic = "none"
    /\ events # <<>>
    /\ peek(events).time <= Horizon

\* a tick: the scheduler's wall-clock cost spans intervals - 1 whole intervals
TickL ==
    /\ CanStepL
    /\ peek(events).kind = "UpdateTimestep"
    /\ \E intervals \in 1..MaxDilation :
          Commit(handle_timestep(Taken, peek(events).time, dispatch(Taken), intervals),
                 peek(events).time)

\* any other event
EventL ==
    /\ CanStepL
    /\ peek(events).kind # "UpdateTimestep"
    /\ Commit(handle_event(Taken, peek(events), <<>>, 1), peek(events).time)

NextL == TickL \/ EventL

\* a tick is at the head of the queue: the condition under which TickL is enabled
CanTick == CanStepL /\ peek(events).kind = "UpdateTimestep"

\* the loop of simulate_until goes on while its condition holds: weak fairness of
\* both actions, that of TickL with its enabling condition written out
SpecL ==
    InitL /\ [][NextL]_vars /\ WF_vars(EventL) /\ ([]<>~CanTick \/ []<><<TickL>>_vars)

----------------------------------------------------------------------------
(* The validator on plans that name ids the catalog lacks.  Such a route is *)
(* a VehicleRoute whose VehicleWork is written out field by field (the      *)
(* fields are public), since VehicleWork::new looks its items up.           *)

\* a vehicle id and an item id that are in no map of the Simulator
GhostVehicle == Cardinality(DOMAIN vehicles) + 1
GhostItem == OrderItemId(Cardinality(DOMAIN orders) + 1, "Box", 0)

\* lists of at most one item, known or not
GhostLists == {<<>>} \cup {<<i>> : i \in DOMAIN order_items \cup {GhostItem}}

GhostRoutes ==
    {VehicleRoute(d, [load_items |-> l, unload_items |-> u, load_time |-> 0, unload_time |-> 0]) :
        d \in DOMAIN factories, l \in GhostLists, u \in GhostLists}

\* one-vehicle plans of at most one route
GhostPlans ==
    {(v :> <<>>) : v \in DOMAIN vehicles \cup {GhostVehicle}}
    \cup {(v :> <<r>>) : v \in DOMAIN vehicles \cup {GhostVehicle}, r \in GhostRoutes}

\* the kernel has handled what happens at time 0; the scheduler holds a plan
InitU ==
    /\ load(KernelInstance)
    /\ LET run == simulate_until(new(KernelInstance, KernelInitialPosition), 0, <<>>, 0)
       IN  /\ Holds(run[1])
           /\ now = run[2]
    /\ planned_routes \in GhostPlans
    /\ verdict = "none"
    /\ pushed = 0
    /\ popped = <<>>
    /\ forked = <<>>

\* check_planned_routes on the plan
UCheck ==
    /\ verdict = "none"
    /\ verdict' = check_planned_routes(Self, planned_routes)
    /\ UNCHANGED <<static, kernel, planned_routes, pushed, popped, forked>>

NextU == UCheck

SpecU == InitU /\ [][NextU]_vars

----------------------------------------------------------------------------
(* VehicleRoute::try_merge on its own: a scheduler's list of two routes,    *)
(* and the call tail.try_merge(route) that deduplicate makes on them.       *)

\* routes with at most one item to load and one to unload
MergeLists == {<<>>} \cup {<<i>> : i \in DOMAIN order_items}

MergeRoutes ==
    {VehicleRoute(d, VehicleWork(l, u)) :
        d \in DOMAIN factories, l \in MergeLists, u \in MergeLists}

\* planned_routes holds the list <<a, b>>; verdict will hold what try_merge returns
InitM ==
    /\ load(KernelInstance)
    /\ Holds(new(KernelInstance, KernelInitialPosition))
    /\ now = 0
    /\ planned_routes \in {(1 :> <<a, b>>) : a \in MergeRoutes, b \in MergeRoutes}
    /\ verdict = <<>>
    /\ pushed = 0
    /\ popped = <<>>
    /\ forked = <<>>

\* a.try_merge(b)
MTryMerge ==
    /\ verdict = <<>>
    /\ verdict' = <<try_merge(planned_routes[1][1], planned_routes[1][2])>>
    /\ UNCHANGED <<static, kernel, planned_routes, pushed, popped, forked>>

NextM == MTryMerge

SpecM == InitM /\ [][NextM]_vars

----------------------------------------------------------------------------
(* schedule::deduplicate on its own: a scheduler's plan, deduplicate applied *)
(* to it, and deduplicate applied to the result.                             *)

\* routes that load or unload at most one item
DedupRoutes ==
    {VehicleRoute(d, VehicleWork(l, <<>>)) : d \in DOMAIN factories, l \in MergeLists}
    \cup {VehicleRoute(d, VehicleWork(<<>>, u)) : d \in DOMAIN factories, u \in MergeLists}

DedupLists == UNION {[1..k -> DedupRoutes] : k \in 0..MaxDedup}

\* plans for one vehicle, and for two (the second with the routes in reverse)
DedupPlans ==
    {(1 :> l) : l \in DedupLists} \cup {(1 :> l) @@ (2 :> Reverse(l)) : l \in DedupLists}

\* planned_routes holds the plan; verdict will hold the plan after each call
InitD ==
    /\ load(KernelInstance)
    /\ Holds(new(KernelInstance, KernelInitialPosition))
    /\ now = 0
    /\ planned_routes \in DedupPlans
    /\ verdict = <<>>
    /\ pushed = 0
    /\ popped = <<>>
    /\ forked = <<>>

\* deduplicate(&mut schedule)
DDeduplicate ==
    /\ verdict = <<>>
    /\ verdict' = <<deduplicate(planned_routes)>>
    /\ UNCHANGED <<static, kernel, planned_routes, pushed, popped, forked>>

\* deduplicate on the plan it has returned
DAgain ==
    /\ Len(verdict) = 1
    /\ verdict' = Append(verdict, deduplicate(verdict[1]))
    /\ UNCHANGED <<static, kernel, planned_routes, pushed, popped, forked>>

NextD == DDeduplicate \/ DAgain

SpecD == InitD /\ [][NextD]_vars

----------------------------------------------------------------------------
(* The single-item scenario: one vehicle idle at A, one order of one         *)
(* Standard item from A to B, an hour's drive, and a scheduler that plans    *)
(* the item at the tick of time 0 and nothing afterwards.                    *)

ScenarioItem == OrderItemId(1, "Standard", 0)

\* what the scenario leaves open: the distance, the docks, the committed time
ScenarioInstance(distance, port_num, committed) ==
    [routes |-> (<<"A", "B">> :> [distance |-> distance, time |-> 3600]),
     factories |-> [f \in {"A", "B"} |-> [port_num |-> port_num]],
     vehicles |-> (1 :> [capacity |-> 4]),
     orders |-> (1 :> Order(1, 1, 0, 0, 0, committed, "A", "B"))]

ScenarioPlan ==
    (1 :> <<VehicleRoute("A", VehicleWork(<<ScenarioItem>>, <<>>)),
            VehicleRoute("B", VehicleWork(<<>>, <<ScenarioItem>>))>>)

\* the scheduler of the scenario
scenario_schedule(time) == IF time = 0 THEN ScenarioPlan ELSE <<>>

InitS ==
    /\ \E distance \in 1..MaxDistance, port_num \in 1..MaxPorts,
          committed \in {3600, 7200, SecondsPerDay} :
          /\ load(ScenarioInstance(distance, port_num, committed))
          /\ Holds(new(ScenarioInstance(distance, port_num, committed), (1 :> "A")))
    /\ now = 0
    /\ planned_routes = <<>>
    /\ verdict = "none"
    /\ pushed = 0
    /\ popped = <<>>
    /\ forked = <<>>

TickS ==
    /\ CanTick
    /\ \E intervals \in 1..MaxDilation :
          Commit(handle_timestep(Taken, peek(events).time,
                                 scenario_schedule(peek(events).time), intervals),
                 peek(events).time)

NextS == TickS \/ EventL

SpecS ==
    InitS /\ [][NextS]_vars /\ WF_vars(EventL) /\ ([]<>~CanTick \/ []<><<TickS>>_vars)

----------------------------------------------------------------------------
(* The validator on plans for two vehicles, each with at most one route     *)
(* that loads.                                                               *)

LoadRoutes ==
    {VehicleRoute(d, VehicleWork(l, <<>>)) : d \in DOMAIN factories, l \in ItemLists(MaxItems)}

LoadLists == {<<>>} \cup {<<r>> : r \in LoadRoutes}

\* the kernel has handled what happens at time 0; the scheduler holds a plan
InitP ==
    /\ load(KernelInstance)
    /\ LET run == simulate_until(new(KernelInstance, KernelInitialPosition), 0, <<>>, 0)
       IN  /\ Holds(run[1])
           /\ now = run[2]
    /\ planned_routes \in {(1 :> l1) @@ (2 :> l2) : l1 \in LoadLists, l2 \in LoadLists}
    /\ verdict = "none"
    /\ pushed = 0
    /\ popped = <<>>
    /\ forked = <<>>

NextP == UCheck

SpecP == InitP /\ [][NextP]_vars

----------------------------------------------------------------------------
(* Docks: three vehicles and two factories of one dock each.  The scheduler *)
(* plans once, at the tick of time 0, and the run goes on under the horizon. *)

\* an order of one Box from A to B for each vehicle; the third vehicle may start at B
DockInstance ==
    [routes |-> KernelInstance.routes,
     factories |-> KernelInstance.factories,
     vehicles |-> [v \in 1..3 |-> [capacity |-> 1]],
     orders |-> [o \in 1..3 |-> Order(o, 0, 0, 1, 0, 7200, "A", "B")]]

\* what the scheduler may have a vehicle do: fetch its order, fetch and deliver
\* it, or drive without work
DockLists(v) ==
    LET item == <<OrderItemId(v, "Box", 0)>>
        fetch == VehicleRoute("A", VehicleWork(item, <<>>))
        bring == VehicleRoute("B", VehicleWork(<<>>, item))
        visit(f) == VehicleRoute(f, VehicleWork(<<>>, <<>>))
    IN  {<<fetch>>, <<fetch, bring>>, <<visit("A")>>, <<visit("B")>>,
         <<visit("B"), visit("A")>>}

DockPlans == {(1 :> l1) @@ (2 :> l2) @@ (3 :> l3) :
                 l1 \in DockLists(1), l2 \in DockLists(2), l3 \in DockLists(3)}

\* the plans the scheduler may return at this tick
dock_schedule(self, time) ==
    IF time = 0 THEN {plan \in DockPlans : check_planned_routes(self, plan) = "Ok"}
    ELSE {<<>>}

InitK ==
    /\ load(DockInstance)
    /\ \E third \in DOMAIN DockInstance.factories :
          Holds(new(DockInstance, (1 :> "A") @@ (2 :> "A") @@ (3 :> third)))
    /\ now = 0
    /\ planned_routes = <<>>
    /\ verdict = "none"
    /\ pushed = 0
    /\ popped = <<>>
    /\ forked = <<>>

TickK ==
    /\ CanTick
    /\ \E plan \in dock_schedule(Taken, peek(events).time) :
          Commit(handle_timestep(Taken, peek(events).time, plan, 1), peek(events).time)

NextK == TickK \/ EventL

\* the loop of simulate_until goes on while its condition holds.  This is
\* WF_vars(NextK) written out: NextK is enabled exactly when CanStepL, and as
\* every step that changes vars is a step of NextK, a step of NextK is a step
\* that changes vars and starts where CanStepL holds
SpecK == InitK /\ [][NextK]_vars /\ ([]<>~CanStepL \/ []<><<CanStepL>>_vars)

----------------------------------------------------------------------------
(* Plan installation: drives long enough that a tick finds vehicles on the  *)
(* road and at a dock.  planned_routes holds what the scheduler returned at *)
(* the last tick.                                                           *)

\* the last tick the run handles
LastTick == 6000

\* two one-pallet vehicles and two orders of one Box each, known from the start
InstallInstance ==
    [routes |-> (<<"A", "B">> :> [distance |-> 7, time |-> 5000])
                @@ (<<"B", "A">> :> [distance |-> 9, time |-> 9000]),
     factories |-> [f \in {"A", "B"} |-> [port_num |-> 1]],
     vehicles |-> (1 :> [capacity |-> 1]) @@ (2 :> [capacity |-> 1]),
     orders |-> (1 :> Order(1, 0, 0, 1, 0, 7200, "A", "B"))
                @@ (2 :> Order(2, 0, 0, 1, 0, 7200, "A", "B"))]

InitI ==
    /\ load(InstallInstance)
    /\ Holds(new(InstallInstance, KernelInitialPosition))
    /\ now = 0
    /\ planned_routes = <<>>
    /\ verdict = "none"
    /\ pushed = 0
    /\ popped = <<>>
    /\ forked = <<>>

CanStepI ==
    /\ panic = "none"
    /\ events # <<>>
    /\ peek(events).time <= LastTick

\* a tick: the scheduler returns a plan the validator accepts
TickI ==
    /\ CanStepI
    /\ peek(events).kind = "UpdateTimestep"
    /\ \E plan \in AcceptedPlans(Taken) :
          /\ planned_routes' = plan
          /\ Becomes(handle_timestep(Taken, peek(events).time, plan, 1), peek(events).time)
    /\ UNCHANGED <<static, verdict, pushed, popped, forked>>

\* any other event
EventI ==
    /\ CanStepI
    /\ peek(events).kind # "UpdateTimestep"
    /\ Commit(handle_event(Taken, peek(events), <<>>, 1), peek(events).time)

NextI == TickI \/ EventI

SpecI == InitI /\ [][NextI]_vars

----------------------------------------------------------------------------
(* The tick cadence: the whole run with the scheduler dispatch, the cost of *)
(* each call to the scheduler measured on the host's clock.                 *)

\* the costs tried: none, just under and just at one interval, and the largest
Costs == {0, time_interval - 1, time_interval, MaxCost}

InitC ==
    /\ load(LiveInstance)
    /\ Holds(new(LiveInstance, KernelInitialPosition))
    /\ now = 0
    /\ planned_routes = <<>>
    /\ verdict = 0
    /\ pushed = 0
    /\ popped = <<>>
    /\ forked = <<>>

\* a tick whose call to the scheduler costs schedule_time
TickC ==
    /\ CanStepL
    /\ peek(events).kind = "UpdateTimestep"
    /\ \E schedule_time \in Costs :
          /\ verdict' = schedule_time
          /\ Becomes(handle_timestep(Taken, peek(events).time, dispatch(Taken),
                                     intervals_of(schedule_time)),
                     peek(events).time)
    /\ UNCHANGED <<static, planned_routes, pushed, popped, forked>>

NextC == TickC \/ EventL

SpecC == InitC /\ [][NextC]_vars

----------------------------------------------------------------------------
(* A catalog whose route map lacks a pair: one vehicle, one order, and the  *)
(* road from A to B only.  The stores are shown as the handler left them,   *)
(* also when the run died in it; verdict is what the validator returned     *)
(* for the plan of the last tick.                                           *)

OneWayInstance ==
    [routes |-> (<<"A", "B">> :> [distance |-> 7, time |-> 600]),
     factories |-> [f \in {"A", "B"} |-> [port_num |-> 1]],
     vehicles |-> (1 :> [capacity |-> 1]),
     orders |-> (1 :> Order(1, 0, 0, 1, 0, 7200, "A", "B"))]

InitR ==
    /\ load(OneWayInstance)
    /\ Holds(new(OneWayInstance, [v \in DOMAIN OneWayInstance.vehicles |-> "A"]))
    /\ now = 0
    /\ planned_routes = <<>>
    /\ verdict = "none"
    /\ pushed = 0
    /\ popped = <<>>
    /\ forked = <<>>

\* the stores as the handler left them, whether it returned or died
Leaves(self, time) ==
    /\ now' = time
    /\ vehicle_states' = self.vehicle_states
    /\ factory_states' = self.factory_states
    /\ order_item_states' = self.order_item_states
    /\ events' = self.events
    /\ total_distance' = self.total_distance
    /\ total_distance_last_timeslot' = self.total_distance_last_timeslot
    /\ panic' = self.panic

\* a tick: the scheduler returns a plan, which handle_timestep validates and,
\* if the validator returns Ok, installs
TickR ==
    /\ CanStepI
    /\ peek(events).kind = "UpdateTimestep"
    /\ \E plan \in AcceptedPlans(Taken) :
          /\ planned_routes' = plan
          /\ verdict' = check_planned_routes(Taken, plan)
          /\ Leaves(handle_timestep(Taken, peek(events).time, plan, 1), peek(events).time)
    /\ UNCHANGED <<static, pushed, popped, forked>>

\* any other event
EventR ==
    /\ CanStepI
    /\ peek(events).kind # "UpdateTimestep"
    /\ Leaves(handle_event(Taken, peek(events), <<>>, 1), peek(events).time)
    /\ UNCHANGED <<static, planned_routes, verdict, pushed, popped, forked>>

NextR == TickR \/ EventR

SpecR == InitR /\ [][NextR]_vars

----------------------------------------------------------------------------
(* Observers: simulate_step statement by statement, in the whole run with   *)
(* the scheduler dispatch.  verdict is the statement the program is at,     *)
(* forked holds the event that simulate_step popped, pushed is the number   *)
(* of callbacks the running for_each has visited, and popped is the list of *)
(* the calls made for the event so far: <<hook, callback>> for a hook of a  *)
(* callback, <<what, 0>> for a call of the kernel's own.                    *)

\* Simulator.callbacks, in registration order
callbacks == [k \in 1..MaxCallbacks |-> k]

\* the iterator of callbacks.iter_mut() has a next element
has_next_mut(visited) == visited < 1
has_next(visited) == visited < Len(callbacks)

InitO ==
    /\ load(LiveInstance)
    /\ Holds(new(LiveInstance, KernelInitialPosition))
    /\ now = 0
    /\ planned_routes = <<>>
    /\ verdict = "simulate_step"
    /\ pushed = 0
    /\ popped = <<>>
    /\ forked = <<>>

\* simulate_step pops the event and calls handle_event
OPop ==
    /\ verdict = "simulate_step"
    /\ CanStepL
    /\ forked' = <<peek(events)>>
    /\ events' = pop(events)
    /\ now' = peek(events).time
    /\ verdict' = "visit_event"
    /\ pushed' = 0
    /\ popped' = <<>>
    /\ UNCHANGED <<static, vehicle_states, factory_states, order_item_states,
                   total_distance, total_distance_last_timeslot, panic, planned_routes>>

\* one turn of a for_each over the callbacks: the hook of the next one is called
OVisit ==
    /\ verdict \in {"visit_event", "visit_dispatch_input", "visit_dispatch_output"}
    /\ has_next(pushed)
    /\ popped' = Append(popped, <<verdict, callbacks[pushed + 1]>>)
    /\ pushed' = pushed + 1
    /\ UNCHANGED <<static, kernel, planned_routes, verdict, forked>>

\* the match of handle_event on an event that is not a tick: its handler
OHandle ==
    /\ verdict = "visit_event"
    /\ ~has_next(pushed)
    /\ forked[1].kind # "UpdateTimestep"
    /\ Becomes(handle_event(Self, forked[1], <<>>, 1), now)
    /\ verdict' = "simulate_step"
    /\ popped' = Append(popped, <<"handler", 0>>)
    /\ UNCHANGED <<static, planned_routes, pushed, forked>>

\* handle_timestep up to the broadcast of the scheduler's input
OMeasure ==
    /\ verdict = "visit_event"
    /\ ~has_next(pushed)
    /\ forked[1].kind = "UpdateTimestep"
    /\ total_distance_last_timeslot' = total_distance
    /\ verdict' = "visit_dispatch_input"
    /\ pushed' = 0
    /\ UNCHANGED <<static, vehicle_states, factory_states, order_item_states, events,
                   total_distance, now, panic, planned_routes, popped, forked>>

\* the call of the scheduler
OSchedule ==
    /\ verdict = "visit_dispatch_input"
    /\ ~has_next(pushed)
    /\ planned_routes' = dispatch(Self)
    /\ verdict' = "visit_dispatch_output"
    /\ pushed' = 0
    /\ popped' = Append(popped, <<"schedule", 0>>)
    /\ UNCHANGED <<static, kernel, forked>>

\* the rest of handle_timestep: validation, installation and the next tick
OInstall ==
    /\ verdict = "visit_dispatch_output"
    /\ ~has_next(pushed)
    /\ Becomes(handle_timestep(Self, now, planned_routes, 1), now)
    /\ verdict' = "simulate_step"
    /\ popped' = Append(popped, <<"check_planned_routes", 0>>)
    /\ UNCHANGED <<static, planned_routes, pushed, forked>>

NextO == OPop \/ OVisit \/ OHandle \/ OMeasure \/ OSchedule \/ OInstall

SpecO == InitO /\ [][NextO]_vars

----------------------------------------------------------------------------
(* Properties of the kernel *)

\* the position of an item state in Unavailable < Unallocated < Allocated
\* < PickedUp < Delivered
Rank(state) ==
    CASE state.tag = "Unavailable" -> 0
      [] state.tag = "Unallocated" -> 1
      [] state.tag = "Allocated" -> 2
      [] state.tag = "PickedUp" -> 3
      [] state.tag = "Delivered" -> 4

\* the events of the queue of this kind
Pending(kind) == {events[k] : k \in {j \in DOMAIN events : events[j].kind = kind}}

\* the vehicles in the waiting queue of the factory
Waiting(f) == {factory_states[f].queue[k][1] : k \in DOMAIN factory_states[f].queue}

\* the vehicles whose service at the factory has begun and whose FinishLoading
\* has not been dispatched
InService(f) == {e.vehicle_id : e \in {x \in Pending("FinishLoading") : x.factory_id = f}}

\* the vehicles on their way to a dock of the factory
Approaching(f) ==
    {e.vehicle_id : e \in {x \in Pending("VehicleApproachedDock") : x.factory_id = f}}

\* the vehicles whose position is DoingWork(f)
Working(f) == {v \in DOMAIN vehicle_states : vehicle_states[v].position = DoingWork(f)}

\* C1: for plans the validator accepts, no step moves an item's state backwards
\* along Unavailable < Unallocated < Allocated < PickedUp < Delivered, and no step
\* changes the state of an item that is Delivered.
ItemLifecycleMonotone ==
    [][\A i \in DOMAIN order_item_states :
          /\ Rank(order_item_states'[i]) >= Rank(order_item_states[i])
          /\ order_item_states[i].tag = "Delivered"
                => order_item_states'[i] = order_item_states[i]]_vars

\* C2: the demand of every vehicle's item_stack and of its allocated_item_stack is
\* at most 4 x its pallet capacity, and neither capacity assertion fails.
CapacityRespected ==
    /\ \A v \in DOMAIN vehicle_states :
          /\ total_demand(vehicle_states[v].item_stack) <= 4 * vehicles[v].capacity
          /\ total_demand(vehicle_states[v].allocated_item_stack) <= 4 * vehicles[v].capacity
    /\ panic \notin {"begin_vehicle_loading: capacity",
                     "panic: check_planned_routes: capacity"}

\* a vehicle has loaded items up to exactly its capacity
LoadedToCapacity ==
    /\ panic = "none"
    /\ \E v \in DOMAIN vehicle_states :
          /\ vehicle_states[v].item_stack # <<>>
          /\ total_demand(vehicle_states[v].item_stack) = 4 * vehicles[v].capacity

DockConservation ==
    \A f \in DOMAIN factory_states :
        /\ factory_states[f].num_avail_docks
               + Cardinality({k \in DOMAIN events : /\ events[k].kind = "FinishLoading"
                                                    /\ events[k].factory_id = f})
           = factories[f].port_num
        /\ factory_states[f].num_avail_docks >= 0
        /\ factory_states[f].queue # <<>> => factory_states[f].num_avail_docks = 0

\* a vehicle waits in the queue of a factory whose only dock is in service
VehicleWaitsForDock ==
    \E f \in DOMAIN factory_states :
        /\ factory_states[f].queue # <<>>
        /\ InService(f) # {}

\* C5, as stated: the vehicles in DoingWork(F) that are not in waiting_queue(F) are
\* at most port_num(F).
WorkingOutsideQueueWithinPorts ==
    \A f \in DOMAIN factory_states :
        Cardinality(Working(f) \ Waiting(f)) <= factories[f].port_num

\* C5, amended: the vehicles whose service at F has begun are at most port_num(F),
\* and every vehicle in DoingWork(F) is approaching a dock, in service or in the
\* waiting queue, and in only one of the three.
ServedWithinPorts ==
    \A f \in DOMAIN factory_states :
        /\ Cardinality(InService(f)) <= factories[f].port_num
        /\ Working(f) = Approaching(f) \cup InService(f) \cup Waiting(f)
        /\ Approaching(f) \cap InService(f) = {}
        /\ Approaching(f) \cap Waiting(f) = {}
        /\ InService(f) \cap Waiting(f) = {}

\* two vehicles are in DoingWork at a one-dock factory, one served and one waiting
TwoVehiclesOneDock ==
    \E f \in DOMAIN factory_states :
        /\ factories[f].port_num = 1
        /\ Cardinality(Working(f)) = 2
        /\ Cardinality(InService(f)) = 1
        /\ Cardinality(Waiting(f)) = 1

\* C6: the clock never goes back, and the queue never holds an event earlier than
\* the clock (the timestamp of the event dispatched last).
MonotoneTime ==
    /\ [](\A k \in DOMAIN events : events[k].time >= now)
    /\ [][now' >= now]_vars

\* after the clock has advanced, a handler has enqueued an event at the very
\* timestamp being dispatched
EnqueuedAtClock ==
    /\ now > 0
    /\ panic = "none"
    /\ \E e \in Pending("VehicleArrival") : e.time = now

----------------------------------------------------------------------------
(* Properties of the event queue *)

\* C7: among events of equal timestamp, pop returns the one pushed first: the
\* events popped so far are in push order, and none still queued was pushed before
\* a popped one of its timestamp.
StableFifo ==
    /\ \A i, j \in DOMAIN popped :
          i < j /\ popped[i].time = popped[j].time
              => popped[i].order_id < popped[j].order_id
    /\ \A j \in DOMAIN popped : \A k \in DOMAIN events :
          events[k].time = popped[j].time => popped[j].order_id < events[k].order_id

----------------------------------------------------------------------------
(* Properties of the validator.  In SpecV every list but for its last route *)
(* has been accepted.                                                       *)

Front(list) == SubSeq(list, 1, Len(list) - 1)

Last(list) == list[Len(list)]

\* the planned stack of the vehicle after the routes
RECURSIVE PlannedStack(_, _)
PlannedStack(stack, routes_) ==
    IF routes_ = <<>> THEN stack
    ELSE PlannedStack(advance_stack(stack, Head(routes_).work), Tail(routes_))

\* the demand on the vehicle after the routes
RECURSIVE RunningTotal(_, _)
RunningTotal(total, routes_) ==
    IF routes_ = <<>> THEN total
    ELSE RunningTotal(total + total_demand(Head(routes_).work.load_items)
                            - total_demand(Head(routes_).work.unload_items),
                      Tail(routes_))

\* the stack the last route of the vehicle's list meets
StackBeforeLast(v) ==
    PlannedStack(vehicle_states[v].allocated_item_stack, Front(planned_routes[v]))

\* the unload_items of the last route, read from last to first, are not the items
\* popped from the top of the stack it meets
LifoMismatch(v) ==
    /\ planned_routes[v] # <<>>
    /\ ~lifo_matches(StackBeforeLast(v), Last(planned_routes[v]).work.unload_items)

\* the last item of the last route's unload_items is not the top of the stack
TopMismatch(v) ==
    /\ planned_routes[v] # <<>>
    /\ Last(planned_routes[v]).work.unload_items # <<>>
    /\ \/ StackBeforeLast(v) = <<>>
       \/ Last(StackBeforeLast(v)) # Last(Last(planned_routes[v]).work.unload_items)

\* the demand on the vehicle exceeds its capacity after the k-th route
Overloaded(v, k) ==
    RunningTotal(total_demand(vehicle_states[v].allocated_item_stack),
                 SubSeq(planned_routes[v], 1, k)) > 4 * vehicles[v].capacity

\* C8, as stated: a list whose last route does not unload from the top of the
\* planned stack is rejected with a LIFO violation.
MismatchReportedAsLifo ==
    \A v \in DOMAIN planned_routes : LifoMismatch(v) => verdict = "LifoViolation"

\* C8, amended: such a list is rejected; the reason is a LIFO violation only for
\* such a list, and it is one whenever the route passes the capacity test and
\* the first item checked is not the top of the stack.
MismatchRejected ==
    \A v \in DOMAIN planned_routes :
        /\ LifoMismatch(v) => verdict # "Ok"
        /\ verdict = "LifoViolation" => LifoMismatch(v)
        /\ TopMismatch(v) /\ ~Overloaded(v, Len(planned_routes[v]))
              => verdict = "LifoViolation"

\* after a route loading two items, a route unloading the first of them alone is
\* rejected with a LIFO violation
UnloadBelowTopRejected ==
    /\ verdict = "LifoViolation"
    /\ \E v \in DOMAIN planned_routes :
          /\ Len(planned_routes[v]) = 2
          /\ Len(planned_routes[v][1].work.load_items) = 2
          /\ planned_routes[v][2].work.unload_items
                = <<planned_routes[v][1].work.load_items[1]>>

\* the order of 10 Standard items in rounds of 8 and 2 items
SplitPlan ==
    (1 :> <<VehicleRoute("A", VehicleWork(Chunk(1, 8), <<>>)),
            VehicleRoute("B", VehicleWork(<<>>, Chunk(1, 8))),
            VehicleRoute("A", VehicleWork(Chunk(9, 10), <<>>)),
            VehicleRoute("B", VehicleWork(<<>>, Chunk(9, 10)))>>)

\* C9: the plan is rejected for capacity exactly when the running total, which
\* starts at the demand of allocated_item_stack and grows by each route's load
\* demand minus its unload demand, exceeds 4 x the pallet capacity after some
\* route; the order of demand 40 in rounds of 8 and 2 items on the vehicle of
\* capacity 32 is accepted.
CapacityRule ==
    /\ \A v \in DOMAIN planned_routes :
          verdict = "CapacityViolation"
              <=> \E k \in 1..Len(planned_routes[v]) : Overloaded(v, k)
    /\ orders = SplitInstance.orders /\ planned_routes = SplitPlan => verdict = "Ok"

\* the split plan has been checked, and accepted
SplitPlanAccepted ==
    /\ orders = SplitInstance.orders
    /\ calc_demand(orders[1]) = 40
    /\ 4 * vehicles[1].capacity = 32
    /\ planned_routes = SplitPlan
    /\ verdict = "Ok"

\* the items of the list that belong to the order are none or all of the order's
Whole(items, order_id) ==
    LET mine == {i \in Range(items) : i.order_id = order_id}
    IN  mine = {} \/ mine = Range(item_ids(orders[order_id]))

\* C10: in an accepted plan no route loads, or unloads, only a part of an order
\* whose demand is at most the vehicle's capacity; a list that does is rejected,
\* while the first 8 items of the order of demand 40 may be loaded alone.
OrderSplitRule ==
    /\ \A v \in DOMAIN planned_routes :
          verdict = "Ok" =>
              \A k \in DOMAIN planned_routes[v] : \A o \in DOMAIN orders :
                  calc_demand(orders[o]) <= 4 * vehicles[v].capacity
                      => /\ Whole(planned_routes[v][k].work.load_items, o)
                         /\ Whole(planned_routes[v][k].work.unload_items, o)
    /\ /\ orders = SplitInstance.orders
       /\ planned_routes = (1 :> <<VehicleRoute("A", VehicleWork(Chunk(1, 8), <<>>))>>)
       => verdict = "Ok"

\* a route that loads one of the two items of an order that fits the vehicle is
\* rejected as an order split
PartialLoadRejected ==
    /\ verdict = "OrderSplit"
    /\ \E v \in DOMAIN planned_routes :
          /\ planned_routes[v] # <<>>
          /\ Len(Last(planned_routes[v]).work.load_items) = 1
          /\ \E o \in DOMAIN orders :
                /\ calc_demand(orders[o]) <= 4 * vehicles[v].capacity
                /\ ~Whole(Last(planned_routes[v]).work.load_items, o)

----------------------------------------------------------------------------
(* Plan canonicalisation, fork, termination, reproducibility *)

\* the list has two adjacent routes with the same destination
AdjacentDuplicates(routes_) ==
    \E k \in 1..(Len(routes_) - 1) : routes_[k].destination = routes_[k + 1].destination

\* C11: the kernel validates and installs the deduplicated plan, so no route queue
\* installed by a tick has two adjacent routes with the same destination: neither
\* within the queue a vehicle is left with, nor between the route an idle vehicle
\* sets out on and the head of the queue installed behind it.
InstalledQueuesDeduplicated ==
    [][CanStep("UpdateTimestep") /\ panic' = "none" =>
         \A v \in DOMAIN vehicle_states :
             LET before == vehicle_states[v]
                 after == vehicle_states'[v]
             IN  /\ ~AdjacentDuplicates(after.current_route)
                 /\ /\ before.position[1] = "Idle"
                    /\ after.position[1] = "Transporting"
                    /\ after.current_route # <<>>
                    => after.position[3] # after.current_route[1].destination]_vars

\* the parent's stores have changed in this step
ParentStepped ==
    <<vehicle_states, factory_states, order_item_states, events, total_distance,
      total_distance_last_timeslot, panic>>' #
    <<vehicle_states, factory_states, order_item_states, events, total_distance,
      total_distance_last_timeslot, panic>>

\* C12: fork returns a Simulator whose vehicle states, factory states, item states,
\* event queue and distance counters equal the parent's; afterwards a step of the
\* fork changes none of these in the parent, and a step of the parent none in the fork.
ForkIsolation ==
    [][/\ forked = <<>> /\ forked' # <<>> => stores(forked'[1]) = Self /\ ~ParentStepped
       /\ forked # <<>> /\ forked' # forked => ~ParentStepped
       /\ forked # <<>> /\ ParentStepped => forked' = forked]_vars

\* parent and fork have both gone on since the fork: an order has arrived in the
\* fork only, and a vehicle has moved in the parent only
ParentAndForkDiverged ==
    /\ forked # <<>>
    /\ \E i \in DOMAIN order_item_states :
          /\ order_item_states[i] = Unavailable
          /\ forked[1].order_item_states[i] = Unallocated
    /\ \E v \in DOMAIN vehicle_states :
          /\ vehicle_states[v].position[1] = "Transporting"
          /\ forked[1].vehicle_states[v].position[1] = "Idle"

\* the entries of the parent's map for these keys
Restricted(map, keys) == [k \in keys |-> map[k]]

\* the orders created at the deadline or before
OrdersUntil(t) == {o \in DOMAIN orders : orders[o].creation_time <= t}

\* C13: the catalog of fork(scheduler, Some(t)) holds exactly the orders created at
\* t or before and exactly the items of those orders, as the parent has them; the
\* catalog of fork(scheduler, None) is the parent's.
ForkCatalog ==
    forked # <<>> =>
        IF forked[2] = <<>>
        THEN /\ forked[1].orders = orders
             /\ forked[1].order_items = order_items
        ELSE /\ forked[1].orders = Restricted(orders, OrdersUntil(forked[2][1]))
             /\ forked[1].order_items =
                    Restricted(order_items,
                               {i \in DOMAIN order_items : i.order_id \in OrdersUntil(forked[2][1])})

\* a fork whose deadline is the creation time of one order and earlier than
\* another's: it holds the first order and not the second
ForkAtCreationTime ==
    /\ forked # <<>>
    /\ forked[2] # <<>>
    /\ \E o \in DOMAIN forked[1].orders : orders[o].creation_time = forked[2][1]
    /\ DOMAIN forked[1].orders # DOMAIN orders
    /\ DOMAIN forked[1].order_items # {}

\* every item is Delivered
AllDelivered == \A i \in DOMAIN order_item_states : order_item_states[i].tag = "Delivered"

\* C14: with a scheduler that plans every available order and an instance whose
\* orders can all be delivered, while some item is not Delivered (Unavailable
\* included) an UpdateTimestep is pending; a tick that finds every item Delivered
\* enqueues no further tick; and the run reaches, for good, the state in which
\* every item is Delivered and the event queue is empty, where simulate_until returns.
RunTerminates ==
    /\ [](panic = "none" /\ ~AllDelivered => Pending("UpdateTimestep") # {})
    /\ [][CanStepL /\ peek(events).kind = "UpdateTimestep" /\ AllDelivered
            => Pending("UpdateTimestep")' = {}]_vars
    /\ <>[](panic = "none" /\ AllDelivered /\ events = <<>>)

\* the last tick has been handled: all three orders are delivered, one of them
\* after a tick that found it Unavailable, and the queue is empty
RunDrained ==
    /\ panic = "none"
    /\ AllDelivered
    /\ events = <<>>
    /\ now > 13000

\* the outcome of simulate_step from this state when the scheduler's cost is
\* under one interval whatever the host's clock
CostFree == handle_event(Taken, peek(events), dispatch(Taken), 1)

\* the stores but the event queue
Rest(self) ==
    <<self.vehicle_states, self.factory_states, self.order_item_states,
      self.total_distance, self.total_distance_last_timeslot>>

\* the events of the queue that are, and that are not, ticks
Ticks(queue) == {queue[k] : k \in {j \in DOMAIN queue : queue[j].kind = "UpdateTimestep"}}
NotTicks(queue) == {queue[k] : k \in {j \in DOMAIN queue : queue[j].kind # "UpdateTimestep"}}

NamesGhostVehicle == GhostVehicle \in DOMAIN planned_routes
NamesGhostItem ==
    \E v \in DOMAIN planned_routes : \E k \in DOMAIN planned_routes[v] :
        GhostItem \in Range(planned_routes[v][k].work.load_items)
                      \cup Range(planned_routes[v][k].work.unload_items)

\* C16: check_planned_routes returns an Err, neither Ok nor a panic, for every plan
\* that names a vehicle id or an item id absent from the catalog.
UnknownIdsRejected ==
    verdict # "none" /\ (NamesGhostVehicle \/ NamesGhostItem)
        => verdict \notin {"Ok"} \cup ValidatorPanics

\* the work the vehicle is committed to and has not begun: that of its pending
\* VehicleArrival or VehicleApproachedDock, or of its entry in a waiting queue
CommittedWork(v) ==
    {e.work : e \in {x \in Pending("VehicleArrival") \cup Pending("VehicleApproachedDock") :
                        x.vehicle_id = v}}
    \cup UNION {{factory_states[f].queue[k][2] :
                    k \in {j \in DOMAIN factory_states[f].queue :
                              factory_states[f].queue[j][1] = v}} :
                f \in DOMAIN factory_states}

\* the stack with the work done: unload_items taken off the top, the last of them
\* first, then load_items put on
WithWorkApplied(stack, work) ==
    SubSeq(stack, 1, Len(stack) - Len(work.unload_items)) \o work.load_items

\* C17: a vehicle that is Transporting, or DoingWork with its service not begun,
\* is committed to exactly one work, the top of item_stack is that work's
\* unload_items, and allocated_item_stack is item_stack with the work applied; a
\* vehicle that is Idle, or DoingWork in service, is committed to none and its
\* allocated_item_stack is its item_stack.  So every item of item_stack is in
\* allocated_item_stack or is about to be unloaded.
PlannedStackLeads ==
    \A v \in DOMAIN vehicle_states :
        LET state == vehicle_states[v]
        IN  /\ state.position[1] = "Transporting" => CommittedWork(v) # {}
            /\ state.position[1] = "Idle" => CommittedWork(v) = {}
            /\ Cardinality(CommittedWork(v)) <= 1
            /\ \A work \in CommittedWork(v) :
                  /\ Len(work.unload_items) <= Len(state.item_stack)
                  /\ SubSeq(state.item_stack,
                            Len(state.item_stack) - Len(work.unload_items) + 1,
                            Len(state.item_stack)) = work.unload_items
                  /\ state.allocated_item_stack = WithWorkApplied(state.item_stack, work)
                  /\ Range(state.item_stack) \subseteq
                         Range(state.allocated_item_stack) \cup Range(work.unload_items)
            /\ CommittedWork(v) = {} => state.allocated_item_stack = state.item_stack

\* a vehicle on its way to unload all it carries: the planned stack is already
\* empty while the items are still on board
UnloadPlannedAhead ==
    \E v \in DOMAIN vehicle_states :
        /\ vehicle_states[v].position[1] = "Transporting"
        /\ vehicle_states[v].item_stack # <<>>
        /\ vehicle_states[v].allocated_item_stack = <<>>

\* the vehicles that begin a transit in this step
Departing ==
    {v \in DOMAIN vehicle_states :
        /\ vehicle_states'[v].position[1] = "Transporting"
        /\ vehicle_states'[v].position # vehicle_states[v].position}

\* the distance of the catalog's route from the first factory of the vehicle's
\* transit to the second, none between a factory and itself, summed over the vehicles
RECURSIVE TransitDistance(_, _)
TransitDistance(states, vehicle_ids) ==
    IF vehicle_ids = <<>> THEN 0
    ELSE LET position == states[Head(vehicle_ids)].position
         IN  (IF position[2] = position[3] THEN 0
              ELSE routes[<<position[2], position[3]>>].distance)
             + TransitDistance(states, Tail(vehicle_ids))

\* C18: a step at time t that sends a vehicle from F to G enqueues its
\* VehicleArrival at G for t + time(F, G) if F # G and for t if F = G, and
\* total_distance grows by the distances of the transits begun, which is nothing
\* for a transit from a factory to itself.
RouteTiming ==
    [][panic' = "none" =>
         /\ \A v \in Departing :
               LET position == vehicle_states'[v].position
                   arrivals == {e \in Pending("VehicleArrival")' : e.vehicle_id = v}
               IN  /\ Cardinality(arrivals) = 1
                   /\ \A e \in arrivals :
                         /\ e.factory_id = position[3]
                         /\ e.time = IF position[2] = position[3] THEN now'
                                     ELSE now' + routes[<<position[2], position[3]>>].time
         /\ total_distance' =
                total_distance + TransitDistance(vehicle_states', SortedKeys(Departing))]_vars

\* at one tick a vehicle has set out for the factory it is at, to arrive at once,
\* and another for the other factory, to arrive after the route's time
TransitsBegun ==
    /\ \E v \in DOMAIN vehicle_states :
          /\ vehicle_states[v].position = Transporting("A", "A")
          /\ \E e \in Pending("VehicleArrival") : e.vehicle_id = v /\ e.time = now
    /\ \E v \in DOMAIN vehicle_states :
          /\ vehicle_states[v].position = Transporting("A", "B")
          /\ \E e \in Pending("VehicleArrival") :
                e.vehicle_id = v /\ e.time = now + routes[<<"A", "B">>].time

\* the unload_time of the catalog's items of these ids, summed
RECURSIVE UnloadTimes(_)
UnloadTimes(ids) ==
    IF ids = {} THEN 0
    ELSE LET i == CHOOSE x \in ids : TRUE
         IN  order_items[i].unload_time + UnloadTimes(ids \ {i})

\* the committed completion time of the item's order, on the day of initial_date,
\* or on the next day if the order is created later in the day than that
Deadline(i) ==
    IF orders[i.order_id].creation_time > orders[i.order_id].committed_completion_time
    THEN orders[i.order_id].committed_completion_time + SecondsPerDay
    ELSE orders[i.order_id].committed_completion_time

\* the items whose state becomes Delivered, or another Delivered, in this step
Delivering ==
    {i \in DOMAIN order_item_states :
        /\ order_item_states'[i].tag = "Delivered"
        /\ order_item_states'[i] # order_item_states[i]}

\* C19: an item becomes Delivered in the step of a FinishLoading that delivers it;
\* every item the event delivers becomes Delivered with deliver_time = the event's
\* timestamp - dock_approaching_time - the summed unload_time of all the items the
\* event delivers, and with deadline = its order's committed completion time.
DeliveryAttribution ==
    [][panic' = "none" =>
         LET event == peek(events)
             items == IF event.kind = "FinishLoading" THEN Range(event.delivered_items)
                      ELSE {}
         IN  /\ Delivering \subseteq items
             /\ \A i \in items :
                   order_item_states'[i] =
                       [tag |-> "Delivered",
                        deadline |-> Deadline(i),
                        deliver_time |-> event.time - dock_approaching_time
                                            - UnloadTimes(items)]]_vars

\* two items that one FinishLoading delivered have the same deliver_time, and an
\* item whose order was created after its committed time of day has its deadline
\* on the next day
DeliveredTogetherAndNextDay ==
    /\ \E i, j \in DOMAIN order_item_states :
          /\ i # j
          /\ i.order_id = j.order_id
          /\ order_item_states[i].tag = "Delivered"
          /\ order_item_states[j].tag = "Delivered"
          /\ order_item_states[i].deliver_time = order_item_states[j].deliver_time
    /\ \E i \in DOMAIN order_item_states :
          /\ order_item_states[i].tag = "Delivered"
          /\ order_item_states[i].deadline >= SecondsPerDay
          /\ order_item_states[i].deadline < NaiveDateTimeMAX

\* C20: a.try_merge(b) is Ok exactly if a and b have the same destination; then a
\* keeps its destination, its load_items and unload_items are a's followed by b's
\* and its load_time and unload_time are the sums; otherwise a is as it was and
\* the Err holds b as it was.
MergeLaw ==
    verdict # <<>> =>
        LET a == planned_routes[1][1]
            b == planned_routes[1][2]
            result == verdict[1]
        IN  /\ result.ok <=> a.destination = b.destination
            /\ result.ok =>
                  /\ result.self.destination = a.destination
                  /\ result.self.work.load_items = a.work.load_items \o b.work.load_items
                  /\ result.self.work.unload_items =
                         a.work.unload_items \o b.work.unload_items
                  /\ result.self.work.load_time = a.work.load_time + b.work.load_time
                  /\ result.self.work.unload_time = a.work.unload_time + b.work.unload_time
            /\ ~result.ok => result.self = a /\ result.err = b

\* two routes to one factory that unload different items and take different
\* times have been merged
MergedDistinctWorks ==
    /\ verdict # <<>>
    /\ verdict[1].ok
    /\ planned_routes[1][1].work.unload_items # <<>>
    /\ planned_routes[1][2].work.unload_items # <<>>
    /\ planned_routes[1][1].work.unload_items # planned_routes[1][2].work.unload_items
    /\ planned_routes[1][1].work.unload_time # planned_routes[1][2].work.unload_time

----------------------------------------------------------------------------
(* Deduplication, simulate_until, the validator's shadow states, positions,  *)
(* docks                                                                      *)

RECURSIVE Loads(_)
\* the load lists of the routes, concatenated
Loads(routes_) ==
    IF routes_ = <<>> THEN <<>> ELSE Head(routes_).work.load_items \o Loads(Tail(routes_))

RECURSIVE Unloads(_)
\* the unload lists of the routes, concatenated
Unloads(routes_) ==
    IF routes_ = <<>> THEN <<>> ELSE Head(routes_).work.unload_items \o Unloads(Tail(routes_))

\* C21: deduplicate(p) has no vehicle list with two adjacent routes to one
\* destination; a plan that already has none is returned unchanged, so that
\* deduplicate(deduplicate(p)) = deduplicate(p); each vehicle's concatenation of
\* load lists and of unload lists is that of p.
DeduplicateCanonical ==
    verdict # <<>> =>
        LET p == planned_routes
            d == verdict[1]
        IN  /\ DOMAIN d = DOMAIN p
            /\ \A v \in DOMAIN p :
                  /\ ~AdjacentDuplicates(d[v])
                  /\ Loads(d[v]) = Loads(p[v])
                  /\ Unloads(d[v]) = Unloads(p[v])
            /\ (\A v \in DOMAIN p : ~AdjacentDuplicates(p[v])) => d = p
            /\ Len(verdict) = 2 => verdict[2] = verdict[1]

\* three routes of which two were merged, one of them unloading, and deduplicate
\* has run on the result
MergedAndDeduplicatedAgain ==
    /\ Len(verdict) = 2
    /\ Len(planned_routes[1]) = 3
    /\ Len(verdict[1][1]) = 2
    /\ Unloads(planned_routes[1]) # <<>>

\* how many times the event is in the queue
Occurrences(queue, e) == Cardinality({k \in DOMAIN queue : queue[k] = e})

\* one step of simulate_until: the earliest event of the queue, at most Until, is
\* dispatched, and every other event is still in the queue afterwards
DispatchesEarliest ==
    /\ panic = "none"
    /\ events # <<>>
    /\ peek(events).time <= Until
    /\ \A k \in DOMAIN events : peek(events).time <= events[k].time
    /\ now' = peek(events).time
    /\ panic' = "none" =>
          \A e \in Range(events) :
              Occurrences(events', e) >=
                  Occurrences(events, e) - (IF e = peek(events) THEN 1 ELSE 0)

\* C22: simulate_until(Until) dispatches the events in queue order, those enqueued
\* on the way included, and only events stamped at most Until; it removes no
\* other event; and it goes on until the queue is empty or its earliest event is
\* stamped after Until (or the run dies), where it stays.
SimulatesUntil ==
    /\ [][DispatchesEarliest]_vars
    /\ <>[]~Running

\* the call has returned with events left that are stamped after Until, after
\* dispatching a FinishLoading that was enqueued during the call
ReturnedAtLaterEvent ==
    /\ panic = "none"
    /\ events # <<>>
    /\ peek(events).time > Until
    /\ \E i \in DOMAIN order_item_states : order_item_states[i].tag = "Delivered"

\* the FinishLoading event of the factory is being dispatched
FinishLoadingAt(f) ==
    /\ CanStepL
    /\ peek(events).kind = "FinishLoading"
    /\ peek(events).factory_id = f

\* C23, as stated: in the single-item scenario the FinishLoading at A fires at
\* 3600 + 1800 + 240 seconds, the vehicle becomes Idle at B a further
\* 3600 + 1800 + 240 seconds later, and the item ends Delivered.
ScenarioAsStated ==
    /\ [][FinishLoadingAt("A") => peek(events).time = 3600 + 1800 + 240]_vars
    /\ [][FinishLoadingAt("B") =>
             /\ peek(events).time = 2 * (3600 + 1800 + 240)
             /\ vehicle_states'[1].position = Idle("B")]_vars
    /\ <>[](order_item_states[ScenarioItem].tag = "Delivered")

\* C23, amended: the vehicle is at A already, so that its drive to A takes no
\* time and the FinishLoading at A fires at 1800 + 240 seconds; the vehicle
\* becomes Idle at B a further 3600 + 1800 + 240 seconds later, and the item ends
\* Delivered.
ScenarioTimes ==
    /\ [][FinishLoadingAt("A") => peek(events).time = 1800 + 240]_vars
    /\ [][FinishLoadingAt("B") =>
             /\ peek(events).time = (1800 + 240) + (3600 + 1800 + 240)
             /\ vehicle_states'[1].position = Idle("B")]_vars
    /\ <>[](order_item_states[ScenarioItem].tag = "Delivered")

\* the scenario has run to its end: the item is Delivered and the vehicle Idle at B
ScenarioDone ==
    /\ vehicles = ScenarioInstance(1, 1, 3600).vehicles
    /\ panic = "none"
    /\ events = <<>>
    /\ order_item_states[ScenarioItem].tag = "Delivered"
    /\ vehicle_states[1].position = Idle("B")

\* C24: the validator rejects any plan in which one item id is in the load_items
\* of routes of two different vehicles.
SharedLoadRejected ==
    (/\ verdict # "none"
     /\ \E v \in DOMAIN planned_routes, w \in DOMAIN planned_routes :
           /\ v # w
           /\ Range(Loads(planned_routes[v])) \cap Range(Loads(planned_routes[w])) # {})
    => verdict # "Ok"

\* no item is twice in one of the stacks or in those of two vehicles
Disjoint(stacks) ==
    /\ \A v \in DOMAIN stacks :
          \A j \in DOMAIN stacks[v], k \in DOMAIN stacks[v] :
              stacks[v][j] = stacks[v][k] => j = k
    /\ \A v \in DOMAIN stacks, w \in DOMAIN stacks :
          v # w => Range(stacks[v]) \cap Range(stacks[w]) = {}

\* C25: with plans the validator accepts, no item id is in the item_stack of two
\* vehicles or twice in one item_stack, and the same holds of
\* allocated_item_stack: an item is carried by at most one vehicle.
CarriedByOneVehicle ==
    /\ Disjoint([v \in DOMAIN vehicle_states |-> vehicle_states[v].item_stack])
    /\ Disjoint([v \in DOMAIN vehicle_states |-> vehicle_states[v].allocated_item_stack])

\* the item states after a route that the validator has accepted
AfterRoute(states, route) ==
    [i \in DOMAIN states |->
        IF i \in Range(route.work.load_items) THEN "PickedUp"
        ELSE IF i \in Range(route.work.unload_items) THEN "Delivered"
        ELSE states[i]]

RECURSIVE AfterRoutes(_, _)
AfterRoutes(states, routes_) ==
    IF routes_ = <<>> THEN states
    ELSE AfterRoutes(AfterRoute(states, Head(routes_)), Tail(routes_))

\* the state of each item when the last route of the vehicle's list is checked
ShadowBeforeLast(v) ==
    AfterRoutes([i \in DOMAIN order_item_states |-> order_item_states[i].tag],
                Front(planned_routes[v]))

NoRepeats(items) == \A j \in DOMAIN items, k \in DOMAIN items : items[j] = items[k] => j = k

\* C26: within one vehicle's list a load is accepted only of an item whose shadow
\* state is Unallocated, and an unload only of an item whose shadow state is
\* Allocated or PickedUp, where the shadow state is the kernel's state of the
\* item, then PickedUp after an accepted load and Delivered after an accepted
\* unload.
ShadowStateRule ==
    \A v \in DOMAIN planned_routes :
        (verdict = "Ok" /\ planned_routes[v] # <<>>) =>
            LET work == Last(planned_routes[v]).work
                before == ShadowBeforeLast(v)
            IN  /\ NoRepeats(work.unload_items)
                /\ NoRepeats(work.load_items)
                /\ \A k \in DOMAIN work.unload_items :
                      before[work.unload_items[k]] \in {"Allocated", "PickedUp"}
                /\ \A k \in DOMAIN work.load_items :
                      /\ before[work.load_items[k]] = "Unallocated"
                      /\ work.load_items[k] \notin Range(work.unload_items)

\* a list whose second route loads again, at the same factory, the items its
\* first route has loaded is rejected, although the vehicle could carry them twice
ReloadRejected ==
    /\ verdict \notin {"none", "Ok"}
    /\ \E v \in DOMAIN planned_routes :
          /\ Len(planned_routes[v]) = 2
          /\ planned_routes[v][1].work.load_items # <<>>
          /\ planned_routes[v][2].work.load_items = planned_routes[v][1].work.load_items
          /\ planned_routes[v][2].work.unload_items = <<>>
          /\ planned_routes[v][2].destination = planned_routes[v][1].destination
          /\ total_demand(planned_routes[v][1].work.load_items) * 2
                <= capacity(vehicles[v])

\* the work loads only items picked up at the factory and unloads only items
\* delivered there
RightPlace(factory_id, work) ==
    /\ \A k \in DOMAIN work.load_items : order_items[work.load_items[k]].pickup_id = factory_id
    /\ \A k \in DOMAIN work.unload_items :
          order_items[work.unload_items[k]].delivery_id = factory_id

\* every route the kernel holds, queued, under way or waiting for a dock
HeldRoutesRightlyPlaced ==
    /\ \A v \in DOMAIN vehicle_states : \A k \in DOMAIN vehicle_states[v].current_route :
          RightPlace(vehicle_states[v].current_route[k].destination,
                     vehicle_states[v].current_route[k].work)
    /\ \A k \in DOMAIN events :
          events[k].kind \in {"VehicleArrival", "VehicleApproachedDock"}
              => RightPlace(events[k].factory_id, events[k].work)
    /\ \A f \in DOMAIN factory_states : \A k \in DOMAIN factory_states[f].queue :
          RightPlace(f, factory_states[f].queue[k][2])

\* an item that becomes PickedUp does so in a service at its pickup factory, and
\* one that becomes Delivered at the end of a service at its delivery factory
ServedAtRightPlace ==
    \A i \in DOMAIN order_item_states :
        /\ (order_item_states[i].tag # "PickedUp" /\ order_item_states'[i].tag = "PickedUp")
              => /\ peek(events).kind \in {"VehicleApproachedDock", "FinishLoading"}
                 /\ peek(events).factory_id = order_items[i].pickup_id
        /\ (order_item_states[i].tag # "Delivered" /\ order_item_states'[i].tag = "Delivered")
              => /\ peek(events).kind = "FinishLoading"
                 /\ peek(events).factory_id = order_items[i].delivery_id

\* C27: no plan the validator accepts has a route that loads an item away from
\* its pickup factory or unloads one away from its delivery factory, so that the
\* kernel only ever holds rightly placed routes; every item that becomes
\* PickedUp was loaded at its pickup factory and every item that becomes
\* Delivered was unloaded at its delivery factory.
PickupAndDeliveryPlaces ==
    /\ []HeldRoutesRightlyPlaced
    /\ [][ServedAtRightPlace]_vars

\* an item has been picked up at A and delivered at B by a vehicle that is now
\* Idle at B
CarriedFromPickupToDelivery ==
    \E i \in DOMAIN order_item_states, v \in DOMAIN vehicle_states :
        /\ order_item_states[i].tag = "Delivered"
        /\ order_items[i].pickup_id # order_items[i].delivery_id
        /\ vehicle_states[v].position = Idle(order_items[i].delivery_id)

\* the ways the position of a vehicle changes in the step that dispatches the
\* event: it sets out from where it is Idle, it arrives where it was bound for,
\* or its service ends, where it becomes Idle and may set out at once
PositionStep(v, event) ==
    LET before == vehicle_states[v].position
        after == vehicle_states'[v].position
    IN  \/ /\ before[1] = "Idle"
           /\ after[1] = "Transporting" /\ after[2] = before[2]
           /\ event.kind = "UpdateTimestep"
        \/ /\ before[1] = "Transporting"
           /\ after = DoingWork(before[3])
           /\ event.kind = "VehicleArrival" /\ event.vehicle_id = v
        \/ /\ before[1] = "DoingWork"
           /\ after = Idle(before[2]) \/ (after[1] = "Transporting" /\ after[2] = before[2])
           /\ event.kind = "FinishLoading" /\ event.vehicle_id = v

PositionPanics ==
    {"handle_vehicle_arrival: position", "begin_vehicle_loading: position",
     "handle_finish_load: position", "begin_vehicle_transporting: position"}

\* C28: with plans the validator accepts, a vehicle's position changes only from
\* Idle(F) to Transporting(F, G) in begin_vehicle_transporting, from
\* Transporting(F, G) to DoingWork(G) at its VehicleArrival and from DoingWork(G)
\* to Idle(G) at its FinishLoading (whose handler may start the next route at
\* once), and no position assertion of a handler fails.
PositionLifecycle ==
    /\ [](panic \notin PositionPanics)
    /\ [][\A v \in DOMAIN vehicle_states :
             vehicle_states'[v].position # vehicle_states[v].position
                 => PositionStep(v, peek(events))]_vars

\* a vehicle has been served at B and has set out again from there
SetOutAfterService ==
    /\ panic = "none"
    /\ \E v \in DOMAIN vehicle_states : vehicle_states[v].position = Transporting("B", "A")

\* the FinishLoading events in the queue
Services(queue) == {queue[k] : k \in {j \in DOMAIN queue : queue[j].kind = "FinishLoading"}}

\* a VehicleApproachedDock is dispatched at a factory with no free dock: the
\* vehicle goes to the end of the waiting queue, and no service begins
JoinsQueue ==
    LET e == peek(events)
        f == e.factory_id
    IN  (/\ e.kind = "VehicleApproachedDock"
         /\ factory_states[f].num_avail_docks = 0)
        => /\ factory_states'[f].queue = Append(factory_states[f].queue, <<e.vehicle_id, e.work>>)
           /\ factory_states'[f].num_avail_docks = 0
           /\ Services(events') = Services(events)

\* a FinishLoading is dispatched at a factory where vehicles wait: the first of
\* them leaves the queue, its service begins at the time of the event, and the
\* dock count stays
HandsDockOver ==
    LET e == peek(events)
        f == e.factory_id
        entry == Head(factory_states[f].queue)
    IN  (/\ e.kind = "FinishLoading"
         /\ factory_states[f].queue # <<>>)
        => /\ factory_states'[f].queue = Tail(factory_states[f].queue)
           /\ factory_states'[f].num_avail_docks = factory_states[f].num_avail_docks
           /\ Services(events') = (Services(events) \ {e})
                 \cup {FinishLoading(entry[1], f, Reverse(entry[2].unload_items),
                                     e.time + entry[2].load_time + entry[2].unload_time)}

\* C29: a vehicle whose VehicleApproachedDock is handled while no dock of F is
\* free is appended to waiting_queue(F) and starts no service then; its service
\* starts at the timestamp of the FinishLoading at F that dequeues it, its own
\* FinishLoading being enqueued at that timestamp plus its load_time and
\* unload_time; the dock count is not incremented for the hand-off; and the
\* queue is served from its head, so in the order the vehicles approached.
DockQueueFifo ==
    [][(panic = "none" /\ panic' = "none") => (JoinsQueue /\ HandsDockOver)]_vars

\* two vehicles wait at a factory behind a third that is being served
TwoVehiclesQueued ==
    \E f \in DOMAIN factory_states :
        /\ Len(factory_states[f].queue) = 2
        /\ factory_states[f].queue[1][1] # factory_states[f].queue[2][1]
        /\ \E e \in Services(events) : e.factory_id = f

\* the vehicle has left the factory's dock: it is Idle there, or has set out
\* from there at the end of its service
ServedAt(v, f) ==
    \/ vehicle_states[v].position = Idle(f)
    \/ /\ vehicle_states[v].position[1] = "Transporting"
       /\ vehicle_states[v].position[2] = f

\* C30: with at least one dock at every factory and the events being dispatched
\* for as long as there are any, every vehicle that has arrived at a factory has
\* its FinishLoading dispatched in the end and becomes Idle there, and every
\* vehicle put in a waiting queue is dequeued and served.
EveryArrivalServed ==
    \A v \in DOMAIN DockInstance.vehicles : \A f \in DOMAIN DockInstance.factories :
        /\ (vehicle_states[v].position = DoingWork(f)) ~> ServedAt(v, f)
        /\ (v \in Waiting(f)) ~>
               (v \notin Waiting(f) /\ \E e \in Services(events) : e.vehicle_id = v)

\* the vehicle that waited last of three has been served, and all three are Idle
QueueDrained ==
    /\ \A f \in DOMAIN factory_states : factory_states[f].queue = <<>>
    /\ \A v \in DOMAIN vehicle_states : vehicle_states[v].position = Idle("A")
    /\ \A i \in DOMAIN order_item_states : order_item_states[i].tag = "PickedUp"

----------------------------------------------------------------------------
(* Properties of plan installation *)

\* a tick is dispatched and the run survives it
Installs ==
    /\ CanStepI
    /\ peek(events).kind = "UpdateTimestep"
    /\ panic' = "none"

\* the vehicle was Idle and the plan gives it a non-empty list
Starts(v) ==
    /\ v \in DOMAIN planned_routes'
    /\ vehicle_states[v].position[1] = "Idle"
    /\ planned_routes'[v] # <<>>

\* C31: after an accepted plan is installed at tick t, a planned vehicle that was
\* Idle(F) with a non-empty list is Transporting(F, destination of the first route),
\* its VehicleArrival is in the queue at t + time(F, destination) and its route
\* queue is the rest of the list; any other planned vehicle's route queue is
\* exactly the new list.
InstalledAsPlanned ==
    [][Installs =>
        \A v \in DOMAIN planned_routes' :
            LET list == planned_routes'[v]
                vehicle == vehicle_states'[v]
            IN  IF Starts(v)
                THEN LET F == vehicle_states[v].position[2]
                     IN  /\ vehicle.position = Transporting(F, list[1].destination)
                         /\ \E k \in DOMAIN events' :
                               events'[k] = VehicleArrival(v, list[1].destination, list[1].work,
                                   peek(events).time + query_time(F, list[1].destination))
                         /\ vehicle.current_route = Tail(list)
                ELSE vehicle.current_route = list]_vars

\* at the second tick one vehicle set out with a route left in its queue, and the
\* other, at a dock, had its queue replaced by a non-empty list
StartedAndReplaced ==
    /\ now = time_interval
    /\ panic = "none"
    /\ \E v, w \in DOMAIN planned_routes :
          /\ Len(planned_routes[v]) = 2
          /\ vehicle_states[v].position[1] = "Transporting"
          /\ vehicle_states[v].current_route = Tail(planned_routes[v])
          /\ \E k \in DOMAIN events :
                /\ events[k].kind = "VehicleArrival"
                /\ events[k].vehicle_id = v
                /\ events[k].time >= time_interval
          /\ vehicle_states[w].position[1] = "DoingWork"
          /\ planned_routes[w] # <<>>
          /\ vehicle_states[w].current_route = planned_routes[w]

\* the items that the routes started by the tick load
StartedLoads ==
    UNION {Range(planned_routes'[v][1].work.load_items) :
              v \in {w \in DOMAIN planned_routes' : Starts(w)}}

\* C32: handling an UpdateTimestep leaves every vehicle absent from the plan as it
\* was; of a planned vehicle that is Transporting or DoingWork it changes the route
\* queue only; it changes no factory's free docks or waiting queue; it changes the
\* state of no item but the load items of a route it starts; and with an empty
\* plan its only effects are the distance bookkeeping and the next tick.
TickFrame ==
    [][Installs =>
        /\ \A v \in DOMAIN vehicle_states \ DOMAIN planned_routes' :
              vehicle_states'[v] = vehicle_states[v]
        /\ \A v \in DOMAIN planned_routes' :
              vehicle_states[v].position[1] # "Idle" =>
                  vehicle_states'[v] =
                      [vehicle_states[v] EXCEPT !.current_route = planned_routes'[v]]
        /\ factory_states' = factory_states
        /\ \A i \in DOMAIN order_item_states \ StartedLoads :
              order_item_states'[i] = order_item_states[i]
        /\ planned_routes' = <<>> =>
              /\ vehicle_states' = vehicle_states
              /\ order_item_states' = order_item_states
              /\ total_distance' = total_distance
              /\ total_distance_last_timeslot' = total_distance
              /\ events' \in {pop(events),
                              push(pop(events),
                                   UpdateTimestep(peek(events).time + time_interval))}
    ]_vars

\* the second tick planned one vehicle only, which was at a dock, and the next
\* tick is in the queue
PlannedBusyVehicleOnly ==
    /\ now = time_interval
    /\ panic = "none"
    /\ UpdateTimestep(2 * time_interval) \in Range(events)
    /\ \E v \in DOMAIN vehicle_states :
          /\ DOMAIN planned_routes = {v}
          /\ planned_routes[v] # <<>>
          /\ vehicle_states[v].position[1] = "DoingWork"
          /\ vehicle_states[v].current_route = planned_routes[v]

----------------------------------------------------------------------------
(* Properties of the tick cadence *)

\* the number of UpdateTimestep events in the queue
PendingTicks(queue) == Cardinality({k \in DOMAIN queue : queue[k].kind = "UpdateTimestep"})

\* a tick is dispatched while some item is not Delivered, and the run survives it
TicksOn ==
    /\ CanStepL
    /\ peek(events).kind = "UpdateTimestep"
    /\ panic' = "none"
    /\ ~AllDelivered

\* each tick handled at t while some item is not Delivered enqueues exactly one
\* tick, at t + k * time_interval with k >= 1, and k = 1 if the cost is under one
\* interval; tick times strictly increase; at most one tick is pending
OneTickAhead ==
    /\ [][TicksOn =>
            /\ PendingTicks(events') = 1
            /\ \E k \in 1..(1 + MaxCost \div time_interval) :
                  /\ Ticks(events') = {UpdateTimestep(peek(events).time + k * time_interval)}
                  /\ verdict' < time_interval => k = 1]_vars
    /\ [][\A e \in Ticks(events') : \A d \in Ticks(events) : e.time >= d.time]_vars
    /\ [][CanStepL /\ peek(events).kind = "UpdateTimestep" =>
            \A e \in Ticks(events') : e.time > peek(events).time]_vars
    /\ [](PendingTicks(events) <= 1)

\* C33 as stated: the cadence above, every tick time being initial_date 00:00 plus
\* a positive multiple of time_interval.
TicksAtPositiveMultiples ==
    /\ OneTickAhead
    /\ [](\A e \in Ticks(events) : \E k \in 1..(Horizon \div time_interval + 2) :
                                       e.time = k * time_interval)

\* C33: the cadence above, every tick time being initial_date 00:00 plus a
\* multiple of time_interval that is positive for every tick but the first, which
\* Simulator::new puts at initial_date 00:00 itself.
TickCadence ==
    /\ OneTickAhead
    /\ [](\A e \in Ticks(events) : \E k \in 0..(Horizon \div time_interval + 2) :
                                       e.time = k * time_interval)
    /\ [][\A e \in Ticks(events') \ Ticks(events) : e.time > 0]_vars

\* a tick whose scheduler cost a whole interval or more has put the next tick
\* more than one interval ahead, after a tick that did not
TickSpacedOut ==
    /\ panic = "none"
    /\ verdict >= time_interval
    /\ now >= time_interval
    /\ \E e \in Ticks(events) : e.time >= now + 2 * time_interval

----------------------------------------------------------------------------
(* Properties of a catalog whose route map lacks a pair *)

\* the route map has no entry from f to g, two different factories
OffTheMap(f, g) == f # g /\ <<f, g>> \notin DOMAIN routes

\* the vehicles that the tick's plan sends, as their next leg, off the map
SentOffTheMap ==
    {v \in DOMAIN planned_routes' :
        /\ vehicle_states[v].position[1] = "Idle"
        /\ planned_routes'[v] # <<>>
        /\ OffTheMap(vehicle_states[v].position[2], planned_routes'[v][1].destination)}

\* C34: no vehicle is ever Transporting(f, g), and total_distance is never
\* increased, for a pair f # g that the route map lacks; a plan whose next leg is
\* such a pair is refused, and no store of the kernel is changed.
LegsOnTheMap ==
    /\ [](\A v \in DOMAIN vehicle_states :
             vehicle_states[v].position[1] = "Transporting" =>
                 ~OffTheMap(vehicle_states[v].position[2], vehicle_states[v].position[3]))
    /\ [](total_distance < f32MAX)
    /\ [][CanStepI /\ peek(events).kind = "UpdateTimestep" /\ SentOffTheMap # {} =>
            /\ verdict' # "Ok"
            /\ vehicle_states' = vehicle_states
            /\ order_item_states' = order_item_states
            /\ total_distance' = total_distance]_vars

----------------------------------------------------------------------------
(* Properties of the delivery time *)

\* the deliver_time that handle_finish_load gives the items of a FinishLoading
Stamp(e) == e.time - dock_approaching_time - UnloadTimes(Range(e.delivered_items))

\* the services that begin in this step: their FinishLoading is pushed
Begun == Services(events') \ Services(events)

\* C35: the deliver_time of every delivered item lies inside the service that
\* unloaded it: it is no earlier than the time the service began at the dock and
\* no later than the timestamp of the service's FinishLoading.
DeliveredWithinService ==
    /\ [][\A e \in Begun :
              e.delivered_items # <<>> => now' <= Stamp(e) /\ Stamp(e) <= e.time]_vars
    /\ [][CanStepL /\ peek(events).kind = "FinishLoading" /\ panic' = "none" =>
              \A i \in Range(peek(events).delivered_items) :
                  order_item_states'[i].deliver_time = Stamp(peek(events))]_vars

----------------------------------------------------------------------------
(* Properties of stepping a fork *)

\* C36: a fork made with the NoopScheduler and a deadline can be stepped any number
\* of times: every item id and order id that the handler of its next event looks
\* up is in the fork's restricted catalog, and no step of it dies of a lookup.
ForkLooksUpItsCatalog ==
    /\ [](forked # <<>> /\ forked[2] # <<>> /\ forked[1].panic = "none"
             /\ forked[1].events # <<>> /\ peek(forked[1].events).time <= Until =>
            LET self == stores(forked[1])
                event == peek(self.events)
                taken == [self EXCEPT !.events = pop(@)]
            IN  /\ gets_items(taken, event) \subseteq DOMAIN forked[1].order_items
                /\ gets_orders(taken, event) \subseteq DOMAIN forked[1].orders)
    /\ [](forked # <<>> /\ forked[2] # <<>> => forked[1].panic # "unchecked get failed")

----------------------------------------------------------------------------
(* Properties of order arrival *)

\* the number of OrderArrival events of the order in the queue
Arrivals(o) ==
    Cardinality({k \in DOMAIN events :
                    events[k].kind = "OrderArrival" /\ events[k].order_id = o})

\* the item ids of the order
ItemsOf(o) == Range(item_ids(orders[o]))

\* C37: each order has exactly one OrderArrival, dispatched at its creation time;
\* when it is dispatched every item of the order is Unavailable, and afterwards
\* every item of the order is Unallocated; no item leaves Unavailable in any
\* other step.
ArrivesOnce ==
    /\ [](\A o \in DOMAIN orders :
             IF \A i \in ItemsOf(o) : order_item_states[i] = Unavailable
             THEN Arrivals(o) = 1
             ELSE Arrivals(o) = 0 /\ \A i \in ItemsOf(o) : order_item_states[i] # Unavailable)
    /\ [](\A k \in DOMAIN events :
             events[k].kind = "OrderArrival" =>
                 /\ events[k].time = orders[events[k].order_id].creation_time
                 /\ Range(events[k].order_item_ids) = ItemsOf(events[k].order_id))
    /\ [][CanStep("OrderArrival") =>
            /\ panic' = "none"
            /\ now' = orders[peek(events).order_id].creation_time
            /\ \A i \in ItemsOf(peek(events).order_id) :
                  order_item_states[i] = Unavailable /\ order_item_states'[i] = Unallocated]_vars
    /\ [][\A i \in DOMAIN order_item_states :
              order_item_states[i] = Unavailable /\ order_item_states'[i] # Unavailable =>
                  CanStep("OrderArrival") /\ i \in ItemsOf(peek(events).order_id)]_vars

\* the later order has arrived, after a tick that could not plan it, and one of
\* the items of the earlier order is already on its way
ArrivedLater ==
    /\ panic = "none"
    /\ now >= 3000
    /\ \A o \in DOMAIN orders : Arrivals(o) = 0
    /\ \A i \in ItemsOf(2) : order_item_states[i] = Unallocated
    /\ \E i \in ItemsOf(1) : order_item_states[i].tag \in {"Allocated", "PickedUp", "Delivered"}

----------------------------------------------------------------------------
(* Properties of the observers *)

\* the calls of one hook on every callback, in registration order
Broadcast(hook) == [k \in 1..Len(callbacks) |-> <<hook, callbacks[k]>>]

\* the step writes a store that the handlers of events write: anything but the
\* pop of simulate_step and the distance bookkeeping of the tick
HandlerWrites ==
    \/ vehicle_states' # vehicle_states
    \/ factory_states' # factory_states
    \/ order_item_states' # order_item_states
    \/ total_distance' # total_distance
    \/ verdict # "simulate_step" /\ events' # events

\* the step makes this call of the kernel's own
Called(what) == popped' = Append(popped, <<what, 0>>)

\* C38: for every dispatched event the visit_event hook of every callback is
\* called, in registration order, before the handler changes any state; within a
\* tick visit_dispatch_input is broadcast before the scheduler is called, and
\* visit_dispatch_output after it returns and before the plan is validated or
\* installed.
HooksInOrder ==
    /\ [][HandlerWrites \/ verdict' = "simulate_step" =>
              /\ Len(popped) >= Len(callbacks)
              /\ SubSeq(popped, 1, Len(callbacks)) = Broadcast("visit_event")]_vars
    /\ [][planned_routes' # planned_routes \/ Called("schedule") =>
              popped = Broadcast("visit_event") \o Broadcast("visit_dispatch_input")]_vars
    /\ [][Called("check_planned_routes") =>
              popped = Broadcast("visit_event") \o Broadcast("visit_dispatch_input")
                       \o <<<<"schedule", 0>>>> \o Broadcast("visit_dispatch_output")]_vars

\* a tick has installed a plan that sent a vehicle off, after every hook was called
HooksCalledAroundPlan ==
    /\ verdict = "simulate_step"
    /\ panic = "none"
    /\ planned_routes # <<>>
    /\ Len(popped) = 3 * Len(callbacks) + 2
    /\ \E v \in DOMAIN planned_routes : vehicle_states[v].position[1] = "Transporting"

----------------------------------------------------------------------------
(* Properties of idle vehicles and pending events *)

\* C39: between event dispatches a vehicle that is Idle has an empty route queue.
IdleHasNoRoutes ==
    \A v \in DOMAIN vehicle_states :
        vehicle_states[v].position[1] = "Idle" => vehicle_states[v].current_route = <<>>

\* one vehicle is Idle at B, where it got by a route it was given, and another is
\* on a route with a further route pending
IdleAfterRoutes ==
    /\ panic = "none"
    /\ \E v, w \in DOMAIN vehicle_states :
          /\ vehicle_states[v].position = Idle("B")
          /\ vehicle_states[w].position[1] # "Idle"
          /\ vehicle_states[w].current_route # <<>>

\* the pending events of the kind for the vehicle, as positions of the queue
PendingFor(kind, v) ==
    {k \in DOMAIN events : events[k].kind = kind /\ events[k].vehicle_id = v}

\* the entries of the vehicle in the waiting queues, as <<factory, position>>
QueuedAt(v) ==
    UNION {{<<f, k>> : k \in {j \in DOMAIN factory_states[f].queue :
                                   factory_states[f].queue[j][1] = v}} :
              f \in DOMAIN factory_states}

\* C40: between event dispatches a vehicle is Transporting if and only if exactly
\* one VehicleArrival is pending for it; it is DoingWork(F) if and only if exactly
\* one of these exists for it: a pending VehicleApproachedDock, an entry in the
\* waiting queue of F, a pending FinishLoading; and an Idle vehicle has no pending
\* event and no queue entry.
PositionMatchesPending ==
    \A v \in DOMAIN vehicle_states :
        LET position == vehicle_states[v].position
            arrivals == PendingFor("VehicleArrival", v)
            atWork == {<<"e", k>> : k \in PendingFor("VehicleApproachedDock", v)
                                           \cup PendingFor("FinishLoading", v)}
                      \cup {<<"q", x>> : x \in QueuedAt(v)}
        IN  /\ Cardinality(arrivals) = (IF position[1] = "Transporting" THEN 1 ELSE 0)
            /\ Cardinality(atWork) = (IF position[1] = "DoingWork" THEN 1 ELSE 0)
            /\ \A k \in arrivals : events[k].factory_id = position[3]
            /\ \A k \in PendingFor("VehicleApproachedDock", v) \cup PendingFor("FinishLoading", v) :
                  events[k].factory_id = position[2]
            /\ \A x \in QueuedAt(v) : x[1] = position[2]

\* every position at once: one vehicle waits in the queue of the factory where
\* the other is being served
ServedAndQueued ==
    /\ panic = "none"
    /\ \E v, w \in DOMAIN vehicle_states :
          /\ PendingFor("FinishLoading", v) # {}
          /\ QueuedAt(w) # {}
          /\ vehicle_states[v].position = vehicle_states[w].position

====
